---- MODULE Spec2Model ----
(***************************************************************************)
(* Model of portracker's TrueNAS collector: TrueNASCollector.collect() and *)
(* the sources it merges (container engine, kernel socket tables, platform *)
(* RPC), with the collector-level cache that outlives one collect().       *)
(*                                                                         *)
(* Vocabulary: the code writes source = "docker" where the specification   *)
(* writes source = container, and platform = "truenas" where it writes     *)
(* platform.                                                               *)
(***************************************************************************)
EXTENDS Integers, Sequences, FiniteSets, TLC

\* ---------------------------------------------------------------- bounds
\* Largest number of containers the engine lists in one run.
MaxContainers == 2
\* Largest number of rows in the kernel socket tables in one run.
MaxListeners == 2
\* Number of collect() calls in one run.
MaxCollects == 1
\* Latest clock reading in a run of the TTL cache.
MaxClock == 2
\* Largest number of cache fetches awaited at the same time.
MaxInflight == 2
\* The most listeners a socket table holds.
MaxPorts == 6
\* collect() calls made on one collector while its platform phase is watched.
MaxRpcCollects == 2
\* Collector objects the registry constructs in a run.
MaxInstances == 2

\* ------------------------------------------------------- JavaScript values
\* null / undefined of a string-valued field.
Null == "null"
\* undefined / 0 of a pid (both falsy in the code's tests).
NoPid == 0
\* NaN as returned by parseInt on a string without leading digits.
NaN == 0 - 1
\* A character that is not a decimal digit, in a string given as a sequence
\* of character codes (digits are 0..9).
NonDigit == 99

\* parseInt(s, 10) on a string given as a sequence of character codes:
\* the value of the longest prefix of digits, NaN when that prefix is empty.
RECURSIVE ParseIntFrom(_, _, _)
ParseIntFrom(s, i, acc) ==
  IF i > Len(s) \/ s[i] \notin 0..9
    THEN (IF i = 1 THEN NaN ELSE acc)
    ELSE ParseIntFrom(s, i + 1, acc * 10 + s[i])

ParseInt(s) == ParseIntFrom(s, 1, 0)

\* `${n}` for a number.
NumStr(n) == IF n = NaN THEN "NaN" ELSE ToString(n)

\* The elements of a sequence.
Range(s) == { s[i] : i \in DOMAIN s }

\* ------------------------------------------------------------- constants
\* process.env.PORT default: the agent's own listen port.
OurPort == 4999
\* Cache TTLs of collect(), in seconds.
SystemInfoTtl == 30
DockerContainersTtl == 45
SystemPortsTtl == 30
HostNetworkContainersTtl == 120
\* this.cacheTimeout default (CACHE_TIMEOUT_MS), in seconds.
CacheTimeout == 60

\* ProcParser.importantUdpPorts: the UDP ports the enumerator keeps when
\* INCLUDE_UDP is not set.
ProcImportantUdpPorts ==
  { 53, 67, 68, 123, 137, 138, 161, 162, 514, 500, 4500, 1194, 1198,
    51820, 51821, 51822 }

\* TrueNASCollector.importantUdpPorts: the UDP ports the reconciler's filter
\* keeps when INCLUDE_UDP is not set.
CollectorImportantUdpPorts ==
  { 51820, 51822, 500, 4500, 1194, 1198, 53, 67, 68 }

\* TrueNASCollector.importantPorts: port -> service and protocol.
ImportantPortNumbers == { 51820, 51821, 51822, 500, 4500, 1194, 1198, 53, 67, 68 }

ImportantPortService(p) ==
  CASE p \in { 51820, 51822 } -> "WireGuard"
    [] p = 51821 -> "WireGuard-UI"
    [] p = 500 -> "IPsec IKE"
    [] p = 4500 -> "IPsec NAT-T"
    [] p \in { 1194, 1198 } -> "OpenVPN"
    [] p = 53 -> "DNS"
    [] p \in { 67, 68 } -> "DHCP"
    [] OTHER -> Null

ImportantPortProtocol(p) ==
  IF p = 51821 THEN "tcp" ELSE IF p \in ImportantPortNumbers THEN "udp" ELSE Null

\* --------------------------------------------------- the host being observed
\* Local addresses as the kernel tables print them: hex digits, most
\* significant digit of each byte first, the bytes of an IPv4 address in
\* little-endian order.
HexAny4 == << 0, 0, 0, 0, 0, 0, 0, 0 >>
HexLoopback4 == << 0, 1, 0, 0, 0, 0, 7, 15 >>
HexAny6 == [ i \in 1..32 |-> 0 ]
\* ::1 and fe80::1, each 32-bit word printed in little-endian byte order.
HexLoopback6 == [ i \in 1..32 |-> IF i = 26 THEN 1 ELSE 0 ]
HexLinkLocal6 ==
  [ i \in 1..32 |-> CASE i = 5 -> 8 [] i = 7 -> 15 [] i = 8 -> 14 [] i = 26 -> 1
                      [] OTHER -> 0 ]

\* The bytes IPv4 local addresses are made of.
ByteChoices == { 0, 1, 127, 255 }

\* The two hex digits of a byte, most significant first.
HexByte(b) == << b \div 16, b % 16 >>

\* An IPv4 address as a kernel table prints it: the 32-bit address in host
\* (little-endian) byte order, eight hex digits.
FormatHex(ip) == HexByte(ip[4]) \o HexByte(ip[3]) \o HexByte(ip[2]) \o HexByte(ip[1])

\* The local addresses a row may carry.
LocalAddresses ==
  { [ family |-> 4, bytes |-> ip, hex |-> FormatHex(ip) ] :
      ip \in [ 1..4 -> ByteChoices ] }
  \cup { [ family |-> 6, bytes |-> << >>, hex |-> h ] :
           h \in { HexAny6, HexLoopback6, HexLinkLocal6 } }

\* Rows of <procRoot>/net/{tcp,tcp6,udp,udp6} that the host may show, in
\* table order.  pid and owner are what the inode map resolves the row's
\* inode to (NoPid and "unknown" when it resolves nothing); ssAddr is the
\* local address as the ss tool prints it for the same socket.
KernelRowPool ==
  << [ file |-> "tcp", addrHex |-> HexAny4, port |-> 8080, state |-> "0A",
       pid |-> 1234, owner |-> "docker-proxy", ssAddr |-> "0.0.0.0" ],
     [ file |-> "tcp", addrHex |-> HexAny4, port |-> 53, state |-> "0A",
       pid |-> 9000, owner |-> "named", ssAddr |-> "0.0.0.0" ],
     [ file |-> "tcp", addrHex |-> HexAny4, port |-> 4999, state |-> "0A",
       pid |-> 4000, owner |-> "node", ssAddr |-> "*" ],
     [ file |-> "udp", addrHex |-> HexAny4, port |-> 53, state |-> "07",
       pid |-> 9001, owner |-> "named", ssAddr |-> "0.0.0.0" ],
     [ file |-> "udp", addrHex |-> HexAny4, port |-> 51820, state |-> "07",
       pid |-> NoPid, owner |-> "unknown", ssAddr |-> "0.0.0.0" ],
     [ file |-> "udp", addrHex |-> HexLoopback4, port |-> 123, state |-> "07",
       pid |-> 700, owner |-> "ntpd", ssAddr |-> "127.0.0.1" ],
     [ file |-> "udp6", addrHex |-> HexAny6, port |-> 5353, state |-> "07",
       pid |-> 800, owner |-> "avahi-daemon", ssAddr |-> "::" ] >>

\* One host binding of a published container port; HostPort is the string
\* the engine reports, as a sequence of character codes.
Bind(ip, portChars) == [ HostIp |-> ip, HostPort |-> portChars ]

\* One entry of NetworkSettings.Ports: "<cport>/<proto>" -> null or bindings.
PortEntry(cport, proto, isNull, binds) ==
  [ cport |-> cport, proto |-> proto, isNull |-> isNull, binds |-> binds ]

\* Containers the engine may list, in listing order.  Id is the 12-character
\* id listContainers returns; Ports is the formatted port string of the list
\* call; NetPorts is NetworkSettings.Ports and Exposed is Config.ExposedPorts
\* of the inspection; Pid is State.Pid; Top is the pid column of `top`.
ContainerPool ==
  << [ Id |-> "c1", Names |-> "web", Image |-> "nginx", Created |-> "created-c1",
       Pid |-> 1234, NetworkMode |-> "bridge", Top |-> << 1234 >>,
       Ports |-> "0.0.0.0:8080->80/tcp, 9090/tcp",
       NetPorts |-> << PortEntry(80, "tcp", FALSE, << Bind("0.0.0.0", << 8, 0, 8, 0 >>) >>),
                       PortEntry(9090, "tcp", TRUE, << >>) >>,
       Exposed |-> << [ cport |-> 80, proto |-> "tcp" ], [ cport |-> 9090, proto |-> "tcp" ] >> ],
     [ Id |-> "c2", Names |-> "dns", Image |-> "bind9", Created |-> "created-c2",
       Pid |-> 9000, NetworkMode |-> "host", Top |-> << 9000, 9001 >>,
       Ports |-> "", NetPorts |-> << >>, Exposed |-> << >> ],
     [ Id |-> "c3", Names |-> "wg_backup", Image |-> "linuxserver/wireguard",
       Created |-> "created-c3",
       Pid |-> 3001, NetworkMode |-> "bridge", Top |-> << 3001 >>,
       Ports |-> "8081/tcp",
       NetPorts |-> << PortEntry(8081, "tcp", FALSE, << Bind("", << >>) >>) >>,
       Exposed |-> << [ cport |-> 8081, proto |-> "tcp" ] >> ],
     [ Id |-> "c4", Names |-> "wg-easy", Image |-> "ghcr.io/wg-easy/wg-easy",
       Created |-> "created-c4",
       Pid |-> 3000, NetworkMode |-> "bridge", Top |-> << 3000 >>,
       Ports |-> "", NetPorts |-> << >>, Exposed |-> << >> ],
     [ Id |-> "c5", Names |-> "portracker", Image |-> "portracker", Created |-> "created-c5",
       Pid |-> 4000, NetworkMode |-> "host", Top |-> << 4000 >>,
       Ports |-> "", NetPorts |-> << >>, Exposed |-> << >> ],
     [ Id |-> "c6", Names |-> "adguard", Image |-> "adguard/adguardhome",
       Created |-> "created-c6",
       Pid |-> 5300, NetworkMode |-> "bridge", Top |-> << 5300 >>,
       Ports |-> "0.0.0.0:53->53/tcp, 0.0.0.0:53->53/udp",
       NetPorts |-> << PortEntry(53, "tcp", FALSE, << Bind("0.0.0.0", << 5, 3 >>) >>),
                       PortEntry(53, "udp", FALSE, << Bind("0.0.0.0", << 5, 3 >>) >>) >>,
       Exposed |-> << [ cport |-> 53, proto |-> "tcp" ], [ cport |-> 53, proto |-> "udp" ] >> ] >>

\* The subsequence of a pool at the indices of sel, in pool order.
RECURSIVE SubSeqAt(_, _, _)
SubSeqAt(pool, sel, i) ==
  IF i > Len(pool) THEN << >>
  ELSE (IF i \in sel THEN << pool[i] >> ELSE << >>) \o SubSeqAt(pool, sel, i + 1)

\* String.prototype.includes over the names and images of ContainerPool.
Includes(s, sub) ==
  CASE sub = "portracker" -> s = "portracker"
    [] sub = "wireguard" -> s = "linuxserver/wireguard"
    [] sub = "wg-" -> s \in { "wg-easy", "ghcr.io/wg-easy/wg-easy" }
    [] sub = "wg_" -> s = "wg_backup"
    [] sub = "wg-easy" -> s \in { "wg-easy", "ghcr.io/wg-easy/wg-easy" }
    [] OTHER -> FALSE

\* Concatenation of a sequence of sequences.
RECURSIVE Flatten(_)
Flatten(ss) == IF ss = << >> THEN << >> ELSE Head(ss) \o Flatten(Tail(ss))

\* ------------------------------------------------------- socket enumerator
\* ProcParser._parseHexAddress.
ParseHexAddress(hex) ==
  IF hex = HexAny4 THEN "0.0.0.0"
  ELSE IF Len(hex) = 8
    THEN ToString(16 * hex[7] + hex[8]) \o "." \o ToString(16 * hex[5] + hex[6])
         \o "." \o ToString(16 * hex[3] + hex[4]) \o "." \o ToString(16 * hex[1] + hex[2])
  ELSE IF Len(hex) = 32 THEN "::"
  ELSE "0.0.0.0"

\* The rows of one table file.
RowsOf(rows, file) == SelectSeq(rows, LAMBDA r : r.file = file)

\* The entry getTcpPorts / getUdpPorts push for one retained row.
ProcEntry(proto, r) ==
  [ protocol |-> proto, host_ip |-> ParseHexAddress(r.addrHex), host_port |-> r.port,
    pid |-> r.pid, owner |-> r.owner ]

\* ProcParser.getTcpPorts: LISTEN rows of tcp then tcp6, port 0 and ports
\* above 65535 dropped.
GetTcpPorts(rows) ==
  LET keep(r) == r.state = "0A" /\ ~(r.port = 0 \/ r.port > 65535)
      kept == SelectSeq(RowsOf(rows, "tcp") \o RowsOf(rows, "tcp6"), keep)
  IN  [ i \in 1..Len(kept) |-> ProcEntry("tcp", kept[i]) ]

\* ProcParser.getUdpPorts: rows of udp then udp6, port 0 and ports above
\* 65535 dropped, and without includeAll only the important ports kept.
GetUdpPorts(rows, includeAll) ==
  LET keep(r) == /\ ~(r.port = 0 \/ r.port > 65535)
                 /\ ~(~includeAll /\ r.port \notin ProcImportantUdpPorts)
      kept == SelectSeq(RowsOf(rows, "udp") \o RowsOf(rows, "udp6"), keep)
  IN  [ i \in 1..Len(kept) |-> ProcEntry("udp", kept[i]) ]

\* The port object _getSystemPorts, _parseSSOutput and _parseNetstatOutput
\* build: the listener's pid is stored in the array pids, and no property
\* pid is set.
SystemPort(owner, proto, ip, port, pid) ==
  [ source |-> "system", owner |-> owner, protocol |-> proto,
    host_ip |-> IF ip = "*" THEN "0.0.0.0" ELSE ip, host_port |-> port,
    target |-> Null, container_id |-> Null, app_id |-> Null,
    pids |-> IF pid # NoPid THEN << pid >> ELSE << >>,
    pid |-> NoPid, created |-> Null, internal |-> FALSE ]

\* TrueNASCollector._parseSSOutput on the output of `ss -tulpn` for the
\* given sockets: tcp rows in state LISTEN, udp rows in state UNCONN, ports
\* outside 1..65535 dropped.
ParseSSOutput(rows) ==
  LET proto(r) == IF r.file \in { "tcp", "tcp6" } THEN "tcp" ELSE "udp"
      keep(r) == /\ (proto(r) = "tcp" => r.state = "0A")
                 /\ (proto(r) = "udp" => r.state = "07")
                 /\ ~(r.port <= 0 \/ r.port > 65535)
      kept == SelectSeq(rows, keep)
  IN  [ i \in 1..Len(kept) |->
          SystemPort(kept[i].owner, proto(kept[i]), kept[i].ssAddr, kept[i].port,
                     kept[i].pid) ]

\* TrueNASCollector._getSystemPorts: /proc parsing when testProcAccess
\* succeeds and yields a port, else the ss tool (netstat and nsenter read the
\* same sockets and are reached only when ss printed none).
GetSystemPorts(rows, includeUdpEnv, procOk) ==
  LET procPorts == GetTcpPorts(rows) \o GetUdpPorts(rows, includeUdpEnv)
      allPorts == [ i \in 1..Len(procPorts) |->
                      SystemPort(procPorts[i].owner, procPorts[i].protocol,
                                 procPorts[i].host_ip, procPorts[i].host_port,
                                 procPorts[i].pid) ]
  IN  IF procOk /\ Len(allPorts) > 0 THEN allPorts ELSE ParseSSOutput(rows)

\* --------------------------------------------------------- container source
\* TrueNASCollector._resolveHostIP.
ResolveHostIP(ip) ==
  CASE ip = "*" -> "0.0.0.0"
    [] ip = "localhost" -> "127.0.0.1"
    [] OTHER -> ip

\* hostIP.endsWith(".255") over the addresses of ContainerPool.
EndsWith255(ip) == ip \in { "192.168.1.255", "255.255.255.255" }

\* The port object _getDockerPorts pushes for one host binding.
PublishedPort(c, e, b) ==
  [ source |-> "docker", owner |-> c.Names,
    protocol |-> IF e.proto = "" THEN "tcp" ELSE e.proto,
    host_ip |-> ResolveHostIP(IF b.HostIp = "" THEN "0.0.0.0" ELSE b.HostIp),
    host_port |-> ParseInt(b.HostPort),
    target |-> ToString(e.cport), container_id |-> c.Id, app_id |-> c.Id,
    pids |-> << >>, pid |-> NoPid, created |-> Null, internal |-> FALSE ]

\* The port object _getDockerPorts pushes for one exposed, unpublished port.
InternalPort(c, x) ==
  [ source |-> "docker", owner |-> c.Names,
    protocol |-> IF x.proto = "" THEN "tcp" ELSE x.proto,
    host_ip |-> "0.0.0.0", host_port |-> x.cport,
    target |-> c.Id \o ":" \o ToString(x.cport) \o "(internal)",
    container_id |-> c.Id, app_id |-> c.Id,
    pids |-> << >>, pid |-> NoPid, created |-> Null, internal |-> TRUE ]

\* The ports of one container in _getDockerPorts: the host bindings of
\* NetworkSettings.Ports when the list call shows ports, then the exposed
\* ports that have no binding.
ContainerPorts(c) ==
  LET entryPorts(e) ==
        IF e.isNull THEN << >>
        ELSE LET binds == SelectSeq(e.binds,
                   LAMBDA b : ~EndsWith255(ResolveHostIP(
                                 IF b.HostIp = "" THEN "0.0.0.0" ELSE b.HostIp)))
             IN  [ j \in 1..Len(binds) |-> PublishedPort(c, e, binds[j]) ]
      published ==
        IF c.Ports # ""
          THEN Flatten([ i \in 1..Len(c.NetPorts) |-> entryPorts(c.NetPorts[i]) ])
          ELSE << >>
      isPublished(x) ==
        \E i \in 1..Len(c.NetPorts) :
          /\ c.NetPorts[i].cport = x.cport
          /\ c.NetPorts[i].proto = x.proto
          /\ ~c.NetPorts[i].isNull
      unpublished == SelectSeq(c.Exposed, LAMBDA x : ~isPublished(x))
  IN  published \o [ i \in 1..Len(unpublished) |-> InternalPort(c, unpublished[i]) ]

\* TrueNASCollector._getDockerPorts: the ports of every listed container,
\* and the empty list when the engine cannot be reached.  The inspection of
\* a container is made inside the loop with no try of its own: when it
\* throws for the container failing, the outer catch returns the empty list.
GetDockerPorts(containers, engineUp, failing) ==
  IF ~engineUp THEN << >>
  ELSE IF \E i \in 1..Len(containers) : containers[i].Id = failing THEN << >>
  ELSE Flatten([ i \in 1..Len(containers) |-> ContainerPorts(containers[i]) ])

\* One element of the list _getDockerContainers returns.
ContainerData(c) ==
  [ id |-> c.Id, name |-> c.Names, image |-> c.Image, created |-> c.Created ]

\* TrueNASCollector._getDockerContainers: one element per listed container;
\* the empty list when neither the call nor its retry reaches the engine.
GetDockerContainers(containers, engineUp) ==
  IF ~engineUp THEN << >>
  ELSE [ i \in 1..Len(containers) |-> ContainerData(containers[i]) ]

\* ------------------------------------------------------------------- state
VARIABLES
  engineContainers,       \* the containers the engine lists, in listing order
  kernelRows,             \* the rows of the host's socket tables
  includeUdp,             \* process.env.INCLUDE_UDP === "true"
  apiKey,                 \* process.env.TRUENAS_API_KEY is set
  procWorks,              \* ProcParser.testProcAccess() succeeds
  dockerUp,               \* the engine answers during the current collect()
  now,                    \* Date.now(), in seconds
  collects,               \* collect() calls started so far
  cache,                  \* this.cache of the collector
  pc,                     \* position of the current collect()
  results,                \* the report being built, then returned
  dockerContainers,       \* collect(): const dockerContainers
  dockerPorts,            \* collect(): const dockerPorts (array of objects)
  pidToContainerMap,      \* collect(): const pidToContainerMap
  processStartTimeMap,    \* collect(): const processStartTimeMap
  hostProcToContainerMap, \* collect(): const hostProcToContainerMap
  uniquePorts,            \* collect(): const uniquePorts (insertion-ordered Map)
  platformOutcome,        \* what the platform RPC did in the current collect()
  inspectFails,           \* id of the container whose inspection throws, or Null
  store,                  \* SimpleTTLCache.store: key -> [value, expires]
  inflight,               \* getOrSet / _getCachedOrFresh calls awaiting their fetch
  lastOp,                 \* the last cache call made and what it returned
  setAt,                  \* per key, the last store made: its time and value
  cacheDisabled,          \* process.env.DISABLE_CACHE === "true"
  ttlContainers,          \* DockerAPIClient.ttl.containers
  signals,                \* what the host shows to TrueNASCollector.isCompatible
  candidateScores,        \* what isCompatible of the docker and system collectors does
  detection,              \* detectCollector: the scores seen and the collector returned
  localAddress,           \* a local address of a kernel table row
  hostIp,                 \* what _parseHexAddress returned for it, or Null
  methods,                \* what each port-listing method of the host does
  scan,                   \* _getSystemPorts: position, methods tried, value returned
  parseCounts,            \* getTcpPorts / getUdpPorts: listeners retained and resolved
  fallbacks,              \* getTcpPorts / getUdpPorts: the fallbacks that were run
  thisClient,             \* this.client of the collector: which TrueNASClient object it is
  rpcCollect,             \* platform phase: the number of the collect() being run
  rpcPc,                  \* platform phase: position of that collect()
  rpcTasks,               \* per collect(), its _collectEnhancedFeatures() execution
  rpcOutcome,             \* per collect(), how its Promise.race settled
  collectorInstances,     \* index.js: Map key -> instance (0: no entry)
  collectorInitState,     \* index.js: Map key -> the instance whose init promise is kept (0: no entry)
  instances,              \* the collector objects constructed by createCollector, oldest first
  factoryCall,            \* the last registry call that returned, and what it returned
  asyncCall               \* the getCollectorAsync call that has not resolved yet

vars ==
  << engineContainers, kernelRows, includeUdp, apiKey, procWorks, dockerUp, now,
     collects, cache, pc, results, dockerContainers, dockerPorts,
     pidToContainerMap, processStartTimeMap, hostProcToContainerMap, uniquePorts,
     platformOutcome, inspectFails, store, inflight, lastOp, setAt, cacheDisabled, ttlContainers,
     signals, candidateScores, detection, localAddress, hostIp,
     methods, scan, parseCounts, fallbacks,
     thisClient, rpcCollect, rpcPc, rpcTasks, rpcOutcome,
     collectorInstances, collectorInitState, instances, factoryCall, asyncCall >>

\* The SimpleTTLCache under test and the calls made on it.
ttlVars == << store, inflight, lastOp, setAt, cacheDisabled, ttlContainers >>

\* The host as detectCollector sees it, and what detectCollector returned.
detectVars == << signals, candidateScores, detection >>

\* The address handed to _parseHexAddress and the text returned.
parseVars == << localAddress, hostIp >>

\* The port-listing methods of the host and the _getSystemPorts call on them.
scanVars == << methods, scan >>

\* The owner resolution of getTcpPorts / getUdpPorts.
resolveVars == << parseCounts, fallbacks >>

\* The platform RPC client of the collector and the phases run on it.
rpcVars == << thisClient, rpcCollect, rpcPc, rpcTasks, rpcOutcome >>

\* The collector registry of index.js and the calls made on it.
factoryVars ==
  << collectorInstances, collectorInitState, instances, factoryCall, asyncCall >>

\* The components modelled on their own, which a collect() leaves alone.
laterVars == << scanVars, resolveVars, rpcVars, factoryVars >>

envVars ==
  << engineContainers, kernelRows, includeUdp, apiKey, procWorks, inspectFails, ttlVars, detectVars, parseVars,
     laterVars >>

\* collect(): const systemPorts.  _getCachedOrFresh hands out the array it
\* stores, so the array the reconciler works on is the cached one.
systemPorts == cache.systemPorts.data

\* An empty Map.
EmptyMap == << >>

\* systemInfo: null.
NoSystemInfo == [ hostname |-> Null, source |-> Null, enhanced |-> FALSE ]

\* The constructor's this.cache.
EmptyCache ==
  [ systemInfo |-> [ has |-> FALSE, data |-> NoSystemInfo, timestamp |-> 0 ],
    dockerContainers |-> [ has |-> FALSE, data |-> << >>, timestamp |-> 0 ],
    systemPorts |-> [ has |-> FALSE, data |-> << >>, timestamp |-> 0 ],
    hostNetworkContainers |-> [ has |-> FALSE, data |-> << >>, timestamp |-> 0 ] ]

\* collect(): const results, as first assigned.
InitialResults(key) ==
  [ platform |-> "truenas", platformName |-> "TrueNAS", systemInfo |-> NoSystemInfo,
    applications |-> << >>, ports |-> << >>, vms |-> << >>, error |-> Null,
    enhancedFeaturesEnabled |-> key ]

\* ------------------------------------------------------------------- cache
\* _getCachedOrFresh: the entry is served while it holds data younger than
\* the timeout.
CacheHit(c, key, timeout, t) == c[key].has /\ t - c[key].timestamp < timeout

\* _getCachedOrFresh: the value returned.
CachedOrFresh(c, key, fresh, timeout, t) ==
  IF CacheHit(c, key, timeout, t) THEN c[key].data ELSE fresh

\* _getCachedOrFresh: the cache afterwards.
CacheAfter(c, key, fresh, timeout, t) ==
  IF CacheHit(c, key, timeout, t) THEN c
  ELSE [ c EXCEPT ![key] = [ has |-> TRUE, data |-> fresh, timestamp |-> t ] ]

\* _getCachedOrFresh: the assignment made once the fetch has resolved, with
\* the time read before the fetch was started.
CacheStore(c, key, fresh, began) ==
  [ c EXCEPT ![key] = [ has |-> TRUE, data |-> fresh, timestamp |-> began ] ]

\* ------------------------------------------------------- SimpleTTLCache
\* undefined.
Undefined == "undefined"
\* A fetch function that rejects.
Throws == "throws"
\* The key of DockerAPIClient.listContainers({ all: true }).
CacheKeys == { "containers:all:{}" }
\* Values a fetch may resolve with.
CacheValues == { "v1", "v2" }
\* this.ttl.containers, as DOCKER_CACHE_CONTAINERS_TTL_MS may set it.
TtlChoices == { 0 - 1, 0, 1 }
\* What a fetch function may do: resolve with a value, with undefined, or reject.
FetchOutcomes == CacheValues \cup { Undefined, Throws }

\* Map.prototype.delete.
MapDelete(st, k) == [ x \in DOMAIN st \ { k } |-> st[x] ]

\* A get that treats an entry as expired from its expiry time on.
TtlGetExpiringEarly(st, k, t) ==
  IF k \notin DOMAIN st THEN [ ret |-> Undefined, store |-> st ]
  ELSE IF st[k].expires # 0 /\ t >= st[k].expires
    THEN [ ret |-> Undefined, store |-> MapDelete(st, k) ]
  ELSE [ ret |-> st[k].value, store |-> st ]

\* SimpleTTLCache.get at time t: the value returned and the store afterwards.
TtlGet(st, k, t) ==
  IF k \notin DOMAIN st THEN [ ret |-> Undefined, store |-> st ]
  ELSE IF st[k].expires # 0 /\ t > st[k].expires
    THEN [ ret |-> Undefined, store |-> MapDelete(st, k) ]
  ELSE [ ret |-> st[k].value, store |-> st ]

\* SimpleTTLCache.set at time t: the store afterwards.
TtlSet(st, k, v, ttlMs, t) ==
  [ x \in DOMAIN st \cup { k } |->
      IF x = k THEN [ value |-> v, expires |-> IF ttlMs > 0 THEN t + ttlMs ELSE 0 ]
      ELSE st[x] ]

\* A getOrSet that keeps the entry another call stored while it awaited.
TtlAfterFetchFirstWins(st, k, out, ttlMs, t) ==
  IF out \in { Undefined, Throws } \/ k \in DOMAIN st THEN st
  ELSE TtlSet(st, k, out, ttlMs, t)

\* A getOrSet that stores whatever fetchFn resolved with, undefined included.
TtlAfterFetchStoringUndefined(st, k, out, ttlMs, t) ==
  IF out = Throws THEN st ELSE TtlSet(st, k, out, ttlMs, t)

\* SimpleTTLCache.getOrSet once fetchFn has settled with out: the store
\* afterwards.
TtlAfterFetch(st, k, out, ttlMs, t) ==
  IF out \in { Undefined, Throws } THEN st ELSE TtlSet(st, k, out, ttlMs, t)

\* No store made for a key yet (or the key was deleted or cleared).
NoStore == [ made |-> FALSE, at |-> 0, value |-> Undefined ]

\* The record of a store made for a key.
StoreMade(v, t) == [ made |-> TRUE, at |-> t, value |-> v ]

\* The record of the cache call just made: its name, key and returned
\* value, and whether it invoked its fetch function.
Op(name, k, ret, invoked) ==
  [ op |-> name, key |-> k, ret |-> ret, invoked |-> invoked ]

\* No cache call was made in the step just taken.
NoOp == Op("none", "none", Undefined, FALSE)

\* A new SimpleTTLCache, no call made on it.
NewTtlCache ==
  /\ store = EmptyMap
  /\ inflight = << >>
  /\ lastOp = NoOp
  /\ setAt = [ k \in CacheKeys |-> NoStore ]

\* The variables of a collect(), which the calls on the caches leave alone.
collectVars ==
  << engineContainers, kernelRows, includeUdp, apiKey, procWorks, inspectFails,
     dockerUp, collects, pc, results, dockerContainers, dockerPorts,
     pidToContainerMap, processStartTimeMap, hostProcToContainerMap, uniquePorts,
     platformOutcome, cacheDisabled, ttlContainers, detectVars, parseVars,
     laterVars >>

\* A call awaiting its fetch function: which cache it belongs to, its key,
\* what the fetch will settle with, when the call began, and whether
\* another call for the same key was awaiting its fetch at the same time.
Call(kind, k, out, t, overlap) ==
  [ kind |-> kind, key |-> k, out |-> out, began |-> t, overlap |-> overlap ]

\* The pending calls are a collection without order; they are kept in one
\* fixed order (by cache, outcome and starting time).
CallRank(c) ==
  (IF c.kind = "ttl" THEN 0 ELSE 1000)
  + (CASE c.out = "v1" -> 0 [] c.out = "v2" -> 100 [] c.out = Undefined -> 200
       [] OTHER -> 300)
  + c.began

\* The calls in flight after a new one for key k of cache kind has begun.
Begun(calls, kind, k, out, t) ==
  LET same == \E i \in 1..Len(calls) : calls[i].kind = kind /\ calls[i].key = k
      marked == [ i \in 1..Len(calls) |->
                    IF calls[i].kind = kind /\ calls[i].key = k
                      THEN [ calls[i] EXCEPT !.overlap = TRUE ] ELSE calls[i] ]
      new == Call(kind, k, out, t, same)
  IN  SelectSeq(marked, LAMBDA c : CallRank(c) <= CallRank(new))
      \o << new >>
      \o SelectSeq(marked, LAMBDA c : CallRank(c) > CallRank(new))

\* The calls in flight without the i-th.
Settled(calls, i) ==
  [ j \in 1..(Len(calls) - 1) |-> IF j < i THEN calls[j] ELSE calls[j + 1] ]

\* ---------------------------------------------------------- detectCollector
\* const collectorTypes, in declaration order.
CollectorTypes == << "truenas", "docker", "system" >>

\* isCompatible: what each signal adds to the score.
KernelScore == 60
OsReleaseScore == 40
SocketScore == 10
DirectoryScore == 10
ApiKeyScore == 20

\* TrueNASCollector.isCompatible.  A list of paths adds its score once, for
\* the first path that exists.
IsCompatible(sig, key) ==
  (IF sig.kernel THEN KernelScore ELSE 0)
  + (IF sig.osRelease THEN OsReleaseScore ELSE 0)
  + (IF sig.socket THEN SocketScore ELSE 0)
  + (IF sig.directory THEN DirectoryScore ELSE 0)
  + (IF key THEN ApiKeyScore ELSE 0)

\* The detection signals of a host.
SignalChoices ==
  [ constructs : BOOLEAN, kernel : BOOLEAN, osRelease : BOOLEAN,
    socket : BOOLEAN, directory : BOOLEAN ]

\* A compatibility check that returned score, and one that threw.
Scored(score) == [ threw |-> FALSE, score |-> score ]
Threw == [ threw |-> TRUE, score |-> 0 ]

\* What isCompatible of another collector may do: return a score or throw.
ScoreOutcomes == { Threw } \cup { Scored(n) : n \in { 0, 20, 60, 100 } }

\* detectCollector: what the compatibility check of each candidate does.  A
\* candidate whose constructor throws is skipped like one whose check throws.
CandidateOutcomes(sig, key, others) ==
  [ truenas |-> IF sig.constructs THEN Scored(IsCompatible(sig, key)) ELSE Threw,
    docker |-> others.docker,
    system |-> others.system ]

\* A detection that takes a candidate whose score equals the best so far.
BetterOrEqual(score, highestScore) == score >= highestScore

\* detectCollector: if (score > highestScore).
Better(score, highestScore) == score > highestScore

\* detectCollector: the loop over collectorTypes from the i-th candidate on.
RECURSIVE DetectLoop(_, _, _, _)
DetectLoop(outcomes, i, bestCollector, highestScore) ==
  IF i > Len(CollectorTypes)
    THEN [ bestCollector |-> bestCollector, highestScore |-> highestScore ]
    ELSE LET out == outcomes[CollectorTypes[i]]
         IN  IF ~out.threw /\ Better(out.score, highestScore)
               THEN DetectLoop(outcomes, i + 1, CollectorTypes[i], out.score)
               ELSE DetectLoop(outcomes, i + 1, bestCollector, highestScore)

\* detectCollector: the platform of the collector returned.
DetectCollector(outcomes) ==
  LET r == DetectLoop(outcomes, 1, Null, 0 - 1)
  IN  IF r.bestCollector # Null /\ r.highestScore > 0 THEN r.bestCollector
      ELSE "system"

\* detectCollector has not returned yet.
NotDetected ==
  [ made |-> FALSE, collector |-> Null,
    scores |-> [ truenas |-> Threw, docker |-> Threw, system |-> Threw ] ]

\* detectCollector has not been called.
NoDetection ==
  /\ signals = [ constructs |-> TRUE, kernel |-> TRUE, osRelease |-> TRUE,
                 socket |-> TRUE, directory |-> TRUE ]
  /\ candidateScores = [ docker |-> Scored(0), system |-> Scored(0) ]
  /\ detection = NotDetected

\* No address has been parsed.
NoParse ==
  /\ localAddress = [ family |-> 4, bytes |-> << 0, 0, 0, 0 >>, hex |-> HexAny4 ]
  /\ hostIp = Null

\* --------------------------------------------------------- _getSystemPorts
\* The methods of _getSystemPorts, in the order of its code.
MethodOrder == << "proc", "ss", "netstat", "nsenter" >>

\* What a method may do.  state: "unusable" (testProcAccess is false),
\* "throws", or "ok"; blank: the command printed nothing; count: the ports
\* its output parses to.
MethodOutcome(state, blank, count) == [ state |-> state, blank |-> blank, count |-> count ]

ProcOutcomes ==
  { MethodOutcome("unusable", TRUE, 0), MethodOutcome("throws", TRUE, 0) }
  \cup { MethodOutcome("ok", n = 0, n) : n \in 0..2 }

CommandOutcomes ==
  { MethodOutcome("throws", TRUE, 0), MethodOutcome("ok", TRUE, 0),
    MethodOutcome("ok", FALSE, 0), MethodOutcome("ok", FALSE, 1) }

\* The list a method yields: count ports, each tagged with the method.
MethodPorts(m, out) == [ i \in 1..out.count |-> m ]

\* A method that returns whatever its command printed.
ReturnsAnyOutput(m, out) == out.state = "ok"

\* _getSystemPorts: whether the value of a method is returned.  /proc, ss
\* and netstat return a list of at least one port; nsenter returns whatever
\* a non-blank output parses to.
Returns(m, out) ==
  /\ out.state = "ok"
  /\ IF m = "nsenter" THEN ~out.blank ELSE out.count > 0

\* _getSystemPorts has not been called.
NoScan ==
  /\ methods = [ proc |-> MethodOutcome("ok", FALSE, 1), ss |-> MethodOutcome("ok", FALSE, 1),
                 netstat |-> MethodOutcome("ok", FALSE, 1),
                 nsenter |-> MethodOutcome("ok", FALSE, 1) ]
  /\ scan = [ next |-> 1, tried |-> << >>, returned |-> FALSE, ports |-> << >> ]

\* getTcpPorts / getUdpPorts: const needFallback.
NeedFallback(ports, resolvedOwners) ==
  ports > 0 /\ resolvedOwners < (ports \div 2)

\* getTcpPorts / getUdpPorts: addResolved < Math.ceil(ports.length * 0.25).
NeedSocketTool(ports, addResolved) == addResolved < ((ports + 3) \div 4)

\* The fallbacks getTcpPorts / getUdpPorts run for ports retained listeners,
\* resolvedOwners of them resolved by the inode map and addResolved more by
\* the targeted fd rescan.
FallbacksRun(ports, resolvedOwners, addResolved) ==
  [ done |-> TRUE,
    rescan |-> NeedFallback(ports, resolvedOwners),
    tool |-> NeedFallback(ports, resolvedOwners) /\ NeedSocketTool(ports, addResolved) ]

\* The numbers a parse may meet: listeners retained, owners the inode map
\* resolves, and owners a rescan would resolve among the others.
OwnerCounts ==
  { [ ports |-> n, resolved |-> r, additional |-> a ] :
      n \in 0..MaxPorts, r \in 0..MaxPorts, a \in 0..MaxPorts }

\* getTcpPorts / getUdpPorts has not been called.
NoResolve ==
  /\ parseCounts = [ ports |-> 0, resolved |-> 0, additional |-> 0 ]
  /\ fallbacks = [ done |-> FALSE, rescan |-> FALSE, tool |-> FALSE ]

\* _collectEnhancedFeatures: the methods called on this.client, in order.
RpcMethods == << "system.info", "app.query", "virt.instance.query" >>

\* collect(): the local stages that precede "enhanced-features-collection".
LocalStages ==
  << "system-info-collection", "docker-containers-collection",
     "port-collection-and-reconciliation" >>

\* A _collectEnhancedFeatures() that was never called.
NoTask == [ state |-> "none", call |-> 0, client |-> 0, got |-> { } ]

\* A _collectEnhancedFeatures() awaiting this.client.call(RpcMethods[k]),
\* the call having been made on the client object c; got: the methods whose
\* answer is already in its results.
Awaiting(k, c, got) == [ state |-> "awaiting", call |-> k, client |-> c, got |-> got ]

\* constructor: this.client = new TrueNASClient(...), the first client
\* object made; no collect() has been called.
NoRpc ==
  /\ thisClient = 1
  /\ rpcCollect = 0
  /\ rpcPc = "idle"
  /\ rpcTasks = [ c \in 1..MaxRpcCollects |-> NoTask ]
  /\ rpcOutcome = [ c \in 1..MaxRpcCollects |-> "none" ]

\* The platform argument of a registry call; "" is a falsy or omitted one.
PlatformArgs == { "", "truenas" }

\* The keys the registry comes to hold: those of PlatformArgs and the types
\* detectCollector creates under DetectionChoices.
PlatformKeys == { "base", "truenas", "system" }

\* config, told apart by its debug flag.
ConfigChoices == BOOLEAN

\* What a new instance's initialize is when createCollector looks at it:
\* not a function, a function that throws, or one that returns a promise.
InitializeChoices == { "absent", "threw", "pending" }

\* What the compatibility checks of detectCollector may find.
DetectionChoices ==
  [ truenas : { Threw, Scored(100) }, docker : { Scored(0) }, system : { Scored(0) } ]

\* createCollector / getCollectorAsync: const key = platform || "base".
KeyOf(platform) == IF platform = "" THEN "base" ELSE platform

\* A registry that never finds the key.
NeverRegistered(map, key) == FALSE

\* collectorInstances.has(key).
Registered(map, key) == map[key] # 0

\* createCollector looks at initialize only of an instance it has just made.
InitializeOf(map, key) == IF Registered(map, key) THEN { "absent" } ELSE InitializeChoices

\* Promise.resolve(instance.initialize()).catch(() => {}): the promise kept
\* in collectorInitState is fulfilled once initialize() has settled either way.
InitSettled(initialize) == initialize \in { "resolved", "rejected" }

\* No getCollectorAsync call is waiting.
NoAsync == [ pending |-> FALSE, key |-> Null, inst |-> 0, awaits |-> 0 ]

\* A registry call that returned the instance inst; config is the one
\* passed to createCollector.
Returned(op, key, config, inst) ==
  [ op |-> op, key |-> key, config |-> config, returned |-> inst ]

\* index.js just loaded: both Maps empty, no call made.
NoFactory ==
  /\ collectorInstances = [ k \in PlatformKeys |-> 0 ]
  /\ collectorInitState = [ k \in PlatformKeys |-> 0 ]
  /\ instances = << >>
  /\ factoryCall = Returned("none", Null, FALSE, 0)
  /\ asyncCall = NoAsync

\* The components modelled on their own are idle.
NoLater == NoScan /\ NoResolve /\ NoRpc /\ NoFactory

\* ------------------------------------------------------------- system info
\* _getBasicSystemInfoViaDocket, and _getFallbackSystemInfo when the engine
\* cannot be reached.
BasicSystemInfo(engineUp) ==
  IF engineUp
    THEN [ hostname |-> "truenas-host", source |-> "docker-host-info", enhanced |-> FALSE ]
    ELSE [ hostname |-> "truenas-system", source |-> "fallback", enhanced |-> FALSE ]

\* collect(): the application entry of one Docker container.
DockerApp(c) ==
  [ type |-> "application", id |-> c.id, name |-> c.name, image |-> c.image,
    created |-> c.created, platform |-> "docker", ports |-> << >> ]

\* collect(): containerCreationTimeMap.get(id) || null.
ContainerCreationTime(cs, id) ==
  IF \E i \in 1..Len(cs) : cs[i].id = id
    THEN cs[CHOOSE i \in 1..Len(cs) :
                /\ cs[i].id = id
                /\ \A j \in (i + 1)..Len(cs) : cs[j].id # id].created
    ELSE Null

\* collect(): one element of portsByContainer.  The container port is parsed
\* from the text after ':' in target, or is host_port when target has none.
PortMeta(p) ==
  [ host_ip |-> p.host_ip, host_port |-> p.host_port, container_port |-> p.host_port,
    protocol |-> p.protocol, internal |-> p.internal ]

\* collect(): platform_data.ports of one application.
AppPorts(app, dps) ==
  LET mine == SelectSeq(dps, LAMBDA p : p.container_id # Null /\ p.container_id = app.id)
  IN  IF app.platform = "docker" /\ Len(mine) > 0
        THEN [ i \in 1..Len(mine) |-> PortMeta(mine[i]) ]
        ELSE app.ports

\* A dedup key of container ports that tells the protocols apart.
DockerPortKeyWithProtocol(p) ==
  IF p.internal
    THEN p.container_id \o ":" \o NumStr(p.host_port) \o ":internal"
    ELSE p.host_ip \o ":" \o NumStr(p.host_port) \o "/" \o p.protocol

\* -------------------------------------------------------------- reconciler
\* collect(): the dedup key of a container port.
DockerPortKey(p) ==
  IF p.internal
    THEN p.container_id \o ":" \o NumStr(p.host_port) \o ":internal"
    ELSE p.host_ip \o ":" \o NumStr(p.host_port)

\* A system-port key that also carries the protocol, so that it never equals
\* the key of a container port on the same endpoint.
SystemPortKeyWithProtocol(p) ==
  p.host_ip \o ":" \o NumStr(p.host_port) \o "/" \o p.protocol

\* collect(): the dedup key of a system port.
SystemPortKey(p) == p.host_ip \o ":" \o NumStr(p.host_port)

\* uniquePorts is an insertion-ordered Map from key to a port object; an
\* entry names the object by the array that holds it and its index there.
MapHas(u, k) == \E i \in 1..Len(u) : u[i].key = k

MapGet(u, k) == u[CHOOSE i \in 1..Len(u) : u[i].key = k]

\* Map.prototype.set: a new key is appended, an existing key keeps its place
\* and takes the new value.
MapSet(u, k, kind, idx) ==
  LET e == [ key |-> k, kind |-> kind, idx |-> idx ]
  IN  IF MapHas(u, k)
        THEN [ i \in 1..Len(u) |-> IF u[i].key = k THEN e ELSE u[i] ]
        ELSE Append(u, e)

\* The port object an entry of uniquePorts refers to.
Deref(e, dps, sps) == IF e.kind = "docker" THEN dps[e.idx] ELSE sps[e.idx]

\* collect(): the loop that seeds uniquePorts with the container ports, from
\* index i on.
RECURSIVE SeedDockerPorts(_, _, _)
SeedDockerPorts(u, dps, i) ==
  IF i > Len(dps) THEN u
  ELSE SeedDockerPorts(MapSet(u, DockerPortKey(dps[i]), "docker", i), dps, i + 1)

\* collect(): the body of the loop over systemPorts for the port at index
\* i.  acc holds uniquePorts (u) and the two arrays of port objects.
MergeSystemPort(acc, i, p2c, hp2c, cs, pst) ==
  LET port == acc.sps[i]
      key == SystemPortKey(port)
  IN  IF MapHas(acc.u, key)
        THEN LET e == MapGet(acc.u, key)
             IN  IF e.kind = "docker"
                   THEN [ acc EXCEPT !.dps[e.idx].pid = IF @ = NoPid THEN port.pid ELSE @ ]
                   ELSE [ acc EXCEPT !.sps[e.idx].pid = IF @ = NoPid THEN port.pid ELSE @ ]
        ELSE LET viaPid == port.pid # NoPid /\ port.pid \in DOMAIN p2c
                 viaHostProc == ~viaPid /\ port.pid # NoPid /\ port.pid \in DOMAIN hp2c
                 promoted == viaPid \/ viaHostProc
                 info == IF viaPid THEN p2c[port.pid] ELSE hp2c[port.pid]
                 containerIdForPort == IF promoted THEN info.id ELSE Null
                 p1 == [ port EXCEPT
                           !.source = IF promoted THEN "docker" ELSE @,
                           !.target = IF viaHostProc THEN NumStr(port.host_port) ELSE @,
                           !.owner = IF promoted THEN info.name ELSE @ ]
                 p2 == IF containerIdForPort # Null /\ containerIdForPort # ""
                         THEN [ p1 EXCEPT
                                  !.container_id = containerIdForPort,
                                  !.app_id = containerIdForPort,
                                  !.created = ContainerCreationTime(cs, containerIdForPort) ]
                         ELSE p1
                 p3 == IF port.pid # NoPid
                         THEN [ p2 EXCEPT
                                  !.created = IF port.pid \in DOMAIN pst
                                                THEN pst[port.pid] ELSE Null ]
                         ELSE p2
             IN  [ acc EXCEPT !.sps[i] = p3, !.u = MapSet(@, key, "system", i) ]

\* collect(): the loop over systemPorts, from index i on.
RECURSIVE MergeSystemPorts(_, _, _, _, _, _)
MergeSystemPorts(acc, i, p2c, hp2c, cs, pst) ==
  IF i > Len(acc.sps) THEN acc
  ELSE MergeSystemPorts(MergeSystemPort(acc, i, p2c, hp2c, cs, pst), i + 1,
                        p2c, hp2c, cs, pst)

\* A self-attribution that leaves the owner of the record as it was.
SelfAttributeKeepingOwner(p, containers, engineUp, cs) ==
  LET matches == { i \in 1..Len(containers) : Includes(containers[i].Names, "portracker") }
      c == containers[CHOOSE i \in matches : \A j \in matches : i <= j]
  IN  IF /\ p.host_port = OurPort
         /\ p.owner \in { "node", "system" }
         /\ p.source = "system"
         /\ engineUp
         /\ matches # { }
        THEN [ p EXCEPT
                 !.source = "docker", !.container_id = c.Id,
                 !.app_id = c.Id, !.target = NumStr(p.host_port),
                 !.created = IF ContainerCreationTime(cs, c.Id) # Null
                               THEN ContainerCreationTime(cs, c.Id) ELSE @ ]
        ELSE p

\* collect(): self-container-attribution of one port object.  The running
\* containers are listed for each matching port; a failing list call leaves
\* the port as it is.
SelfAttribute(p, containers, engineUp, cs) ==
  LET matches == { i \in 1..Len(containers) : Includes(containers[i].Names, "portracker") }
      c == containers[CHOOSE i \in matches : \A j \in matches : i <= j]
  IN  IF /\ p.host_port = OurPort
         /\ p.owner \in { "node", "system" }
         /\ p.source = "system"
         /\ engineUp
         /\ matches # { }
        THEN [ p EXCEPT
                 !.source = "docker", !.owner = c.Names, !.container_id = c.Id,
                 !.app_id = c.Id, !.target = NumStr(p.host_port),
                 !.created = IF ContainerCreationTime(cs, c.Id) # Null
                               THEN ContainerCreationTime(cs, c.Id) ELSE @ ]
        ELSE p

\* _enhanceKnownPort: the containers a WireGuard port may belong to.
PossibleContainers(allApps) ==
  SelectSeq(allApps,
    LAMBDA app : \/ Includes(app.name, "wireguard")
                 \/ Includes(app.name, "wg-")
                 \/ Includes(app.name, "wg_")
                 \/ Includes(app.image, "wireguard")
                 \/ Includes(app.image, "wg-easy"))

\* _enhanceKnownPort without the assignment to source.
EnhanceKnownPortKeepingSource(p, allApps) ==
  LET possible == PossibleContainers(allApps)
      exact == { i \in 1..Len(possible) : possible[i].name \in { "wg-easy", "wireguard" } }
      best == IF exact # { }
                THEN possible[CHOOSE i \in exact : \A j \in exact : i <= j]
                ELSE possible[1]
  IN  IF p.host_port \notin ImportantPortNumbers THEN p
      ELSE IF ImportantPortService(p.host_port) \notin { "WireGuard", "WireGuard-UI" } THEN p
      ELSE IF Len(possible) = 0 THEN p
      ELSE [ p EXCEPT
               !.container_id = best.id, !.app_id = best.id,
               !.owner = best.name, !.target = NumStr(p.host_port),
               !.created = best.created ]

\* An enrichment that takes the first matching container whatever its name.
EnhanceKnownPortFirstMatch(p, allApps) ==
  LET possible == PossibleContainers(allApps)
      best == possible[1]
  IN  IF p.host_port \notin ImportantPortNumbers THEN p
      ELSE IF ImportantPortService(p.host_port) \notin { "WireGuard", "WireGuard-UI" } THEN p
      ELSE IF Len(possible) = 0 THEN p
      ELSE [ p EXCEPT
               !.source = "docker", !.container_id = best.id, !.app_id = best.id,
               !.owner = best.name, !.target = NumStr(p.host_port),
               !.created = best.created ]

\* _enhanceKnownPort.
EnhanceKnownPort(p, allApps) ==
  LET possible == PossibleContainers(allApps)
      exact == { i \in 1..Len(possible) : possible[i].name \in { "wg-easy", "wireguard" } }
      best == IF exact # { }
                THEN possible[CHOOSE i \in exact : \A j \in exact : i <= j]
                ELSE possible[1]
  IN  IF p.host_port \notin ImportantPortNumbers THEN p
      ELSE IF ImportantPortService(p.host_port) \notin { "WireGuard", "WireGuard-UI" } THEN p
      ELSE IF Len(possible) = 0 THEN p
      ELSE [ p EXCEPT
               !.source = "docker", !.container_id = best.id, !.app_id = best.id,
               !.owner = best.name, !.target = NumStr(p.host_port),
               !.created = best.created ]

\* collect(): the port object after the filter callback has run on it.
FilteredPort(p, allApps) ==
  IF p.protocol = "tcp"
    THEN IF /\ ImportantPortProtocol(p.host_port) = "tcp"
            /\ p.source = "system"
            /\ p.container_id = Null
           THEN EnhanceKnownPort(p, allApps) ELSE p
  ELSE IF p.source = "docker" THEN p
  ELSE IF p.protocol = "udp" /\ p.host_port \in CollectorImportantUdpPorts
    THEN IF p.source = "system" /\ p.container_id = Null
           THEN EnhanceKnownPort(p, allApps) ELSE p
  ELSE p

\* A filter callback that keeps every system UDP port, opted in or not.
FilterKeepsSystemUdp(p, includeSystemUdp) ==
  IF p.protocol = "tcp" THEN TRUE
  ELSE IF p.source = "docker" THEN TRUE
  ELSE IF p.protocol = "udp" /\ p.host_port \in CollectorImportantUdpPorts THEN TRUE
  ELSE IF p.protocol = "udp" /\ p.source = "system" THEN TRUE
  ELSE FALSE

\* collect(): what the filter callback returns for a port object.
FilterKeeps(p, includeSystemUdp) ==
  IF p.protocol = "tcp" THEN TRUE
  ELSE IF p.source = "docker" THEN TRUE
  ELSE IF p.protocol = "udp" /\ p.host_port \in CollectorImportantUdpPorts THEN TRUE
  ELSE IF p.protocol = "udp" /\ p.source = "system" THEN includeSystemUdp
  ELSE FALSE

\* BaseCollector.normalizePortEntry: '*' becomes 0.0.0.0.
NormalizePortEntry(p) ==
  [ p EXCEPT !.host_ip = IF @ = "*" THEN "0.0.0.0" ELSE @ ]

\* --------------------------------------------------------- platform source
\* What the platform RPC answers when it can be reached.
PlatformSystemInfo == [ hostname |-> "truenas.local" ]

PlatformApps == << [ id |-> "plex", name |-> "plex", image |-> "N/A", started |-> "N/A" ] >>

PlatformVms == << [ id |-> "vm1", name |-> "debian", status |-> "RUNNING" ] >>

\* What the platform RPC may do during one collect(): answer every call,
\* answer system.info only, reject every call, or answer nothing before the
\* 15 s timer fires.
PlatformOutcomes == { "ok", "partial", "unreachable", "timeout" }

\* _collectEnhancedFeatures: the data it resolves with; a rejected call
\* leaves its field as initialised.
CollectEnhancedFeatures(outcome) ==
  [ hasSystemInfo |-> outcome \in { "ok", "partial" },
    systemInfo |-> PlatformSystemInfo,
    apps |-> IF outcome = "ok" THEN PlatformApps ELSE << >>,
    vms |-> IF outcome = "ok" THEN PlatformVms ELSE << >> ]

\* collect(): the application entry of one platform app.
TruenasApp(app) ==
  [ type |-> "application", id |-> app.id, name |-> app.name, image |-> app.image,
    created |-> app.started, platform |-> "truenas", ports |-> << >> ]

\* collect(): the vm entry of one platform vm.
VmEntry(vm) ==
  [ type |-> "vm", id |-> vm.id, name |-> vm.name,
    status |-> IF vm.status = "RUNNING" THEN "running" ELSE "unknown",
    platform |-> "truenas" ]

\* An enhanced-features-collection whose catch block records the timeout in
\* the report's error.
EnhancedFeaturesCollectionRecordingError(res, key, outcome) ==
  IF ~key THEN res
  ELSE IF outcome = "timeout"
    THEN [ res EXCEPT !.error = "TrueNAS connection timeout after 15 seconds" ]
  ELSE LET data == CollectEnhancedFeatures(outcome)
       IN  [ res EXCEPT
               !.systemInfo =
                 IF data.hasSystemInfo
                   THEN [ @ EXCEPT !.hostname = data.systemInfo.hostname, !.enhanced = TRUE ]
                   ELSE @,
               !.applications =
                 IF Len(data.apps) > 0
                   THEN @ \o [ i \in 1..Len(data.apps) |-> TruenasApp(data.apps[i]) ]
                   ELSE @,
               !.vms =
                 IF Len(data.vms) > 0
                   THEN [ i \in 1..Len(data.vms) |-> VmEntry(data.vms[i]) ]
                   ELSE @ ]

\* collect(): enhanced-features-collection applied to the report res.
\* Without a key nothing is done; on a timeout the catch block only logs.
EnhancedFeaturesCollection(res, key, outcome) ==
  IF ~key \/ outcome = "timeout" THEN res
  ELSE LET data == CollectEnhancedFeatures(outcome)
       IN  [ res EXCEPT
               !.systemInfo =
                 IF data.hasSystemInfo
                   THEN [ @ EXCEPT !.hostname = data.systemInfo.hostname, !.enhanced = TRUE ]
                   ELSE @,
               !.applications =
                 IF Len(data.apps) > 0
                   THEN @ \o [ i \in 1..Len(data.apps) |-> TruenasApp(data.apps[i]) ]
                   ELSE @,
               !.vms =
                 IF Len(data.vms) > 0
                   THEN [ i \in 1..Len(data.vms) |-> VmEntry(data.vms[i]) ]
                   ELSE @ ]

\* ----------------------------------------------------------------- PID maps
\* collect(): pidToContainerMap, one entry per running container whose
\* inspection reports a pid; a later container replaces an earlier one with
\* the same pid.  Empty when the engine cannot be reached; a container whose
\* inspection throws is skipped.
BuildPidToContainerMap(containers, engineUp, failing) ==
  LET withPid == { i \in 1..Len(containers) :
                     containers[i].Pid # 0 /\ containers[i].Id # failing }
      last(pid) == CHOOSE i \in withPid :
                     /\ containers[i].Pid = pid
                     /\ \A j \in withPid : containers[j].Pid = pid => j <= i
  IN  IF ~engineUp THEN EmptyMap
      ELSE [ pid \in { containers[i].Pid : i \in withPid } |->
               [ id |-> containers[last(pid)].Id, name |-> containers[last(pid)].Names ] ]

\* collect(): processStartTimeMap, the start time `ps` prints for every pid
\* found in the property pid of a system port.
BuildProcessStartTimeMap(sps) ==
  [ pid \in { sps[i].pid : i \in 1..Len(sps) } \ { NoPid } |-> "lstart-" \o ToString(pid) ]

\* _buildHostProcToContainerMap: the fetch of the ids of the host-networked
\* containers; a container whose inspection throws is skipped.
HostNetworkContainerIds(containers, failing) ==
  LET hostOnes == SelectSeq(containers,
                    LAMBDA c : c.NetworkMode = "host" /\ c.Id # failing)
  IN  [ i \in 1..Len(hostOnes) |-> hostOnes[i].Id ]

\* _buildHostProcToContainerMap: the map built from the ids of the
\* host-networked containers, the container list and the engine's `top`.
HostProcMap(hostIds, cs, containers, engineUp) ==
  LET topOf(id) ==
        IF engineUp /\ \E i \in 1..Len(containers) : containers[i].Id = id
          THEN Range(containers[CHOOSE i \in 1..Len(containers) : containers[i].Id = id].Top)
          ELSE { }
      known(id) == \E i \in 1..Len(cs) : cs[i].id = id
      nameOf(id) == cs[CHOOSE i \in 1..Len(cs) : cs[i].id = id].name
      owners(pid) == { k \in 1..Len(hostIds) :
                         pid > 0 /\ pid \in topOf(hostIds[k]) /\ known(hostIds[k]) }
      lastOwner(pid) == hostIds[CHOOSE k \in owners(pid) : \A j \in owners(pid) : j <= k]
      allPids == UNION { topOf(hostIds[k]) : k \in 1..Len(hostIds) }
  IN  [ pid \in { q \in allPids : owners(q) # { } } |->
          [ id |-> lastOwner(pid), name |-> nameOf(lastOwner(pid)) ] ]

\* ----------------------------------------------------------------- actions
\* The selections of at most n elements of a pool, each in pool order.
Selections(pool, n) ==
  { SubSeqAt(pool, sel, 1) :
      sel \in { S \in SUBSET (1..Len(pool)) : Cardinality(S) <= n } }

\* The collector as constructed, on some host.
Init ==
  /\ engineContainers \in Selections(ContainerPool, MaxContainers)
  /\ kernelRows \in Selections(KernelRowPool, MaxListeners)
  /\ includeUdp \in BOOLEAN
  /\ apiKey \in BOOLEAN
  /\ procWorks \in BOOLEAN
  /\ dockerUp = TRUE
  /\ now = 0
  /\ collects = 0
  /\ cache = EmptyCache
  /\ pc = "idle"
  /\ results = InitialResults(apiKey)
  /\ dockerContainers = << >>
  /\ dockerPorts = << >>
  /\ pidToContainerMap = EmptyMap
  /\ processStartTimeMap = EmptyMap
  /\ hostProcToContainerMap = EmptyMap
  /\ uniquePorts = << >>
  /\ platformOutcome = "none"
  /\ inspectFails = Null
  /\ NewTtlCache
  /\ NoDetection
  /\ NoParse
  /\ NoLater
  /\ cacheDisabled = FALSE
  /\ ttlContainers = 1

\* collect() is called: results is initialised; the engine answers or not
\* for the duration of this call.
CollectStart ==
  /\ pc = "idle"
  /\ collects < MaxCollects
  /\ collects' = collects + 1
  /\ dockerUp' \in BOOLEAN
  /\ results' = InitialResults(apiKey)
  /\ dockerContainers' = << >>
  /\ dockerPorts' = << >>
  /\ pidToContainerMap' = EmptyMap
  /\ processStartTimeMap' = EmptyMap
  /\ hostProcToContainerMap' = EmptyMap
  /\ uniquePorts' = << >>
  /\ platformOutcome' = "none"
  /\ pc' = "system-info"
  /\ UNCHANGED << envVars, now, cache >>

\* collect(): system-info-collection.
SystemInfoCollection ==
  /\ pc = "system-info"
  /\ LET fresh == BasicSystemInfo(dockerUp)
     IN  /\ results' = [ results EXCEPT !.systemInfo =
                           CachedOrFresh(cache, "systemInfo", fresh, SystemInfoTtl, now) ]
         /\ cache' = CacheAfter(cache, "systemInfo", fresh, SystemInfoTtl, now)
  /\ pc' = "docker-containers"
  /\ UNCHANGED << envVars, dockerUp, now, collects, dockerContainers, dockerPorts,
                  pidToContainerMap, processStartTimeMap, hostProcToContainerMap,
                  uniquePorts, platformOutcome >>

\* collect(): docker-containers-collection.
DockerContainersCollection ==
  /\ pc = "docker-containers"
  /\ LET fresh == GetDockerContainers(engineContainers, dockerUp)
         cs == CachedOrFresh(cache, "dockerContainers", fresh, DockerContainersTtl, now)
     IN  /\ dockerContainers' = cs
         /\ cache' = CacheAfter(cache, "dockerContainers", fresh, DockerContainersTtl, now)
         /\ results' = [ results EXCEPT !.applications =
                           @ \o [ i \in 1..Len(cs) |-> DockerApp(cs[i]) ] ]
  /\ pc' = "docker-ports"
  /\ UNCHANGED << envVars, dockerUp, now, collects, dockerPorts, pidToContainerMap,
                  processStartTimeMap, hostProcToContainerMap, uniquePorts,
                  platformOutcome >>

\* collect(): docker-ports-collection and the port metadata of the
\* applications.
DockerPortsCollection ==
  /\ pc = "docker-ports"
  /\ LET dps == GetDockerPorts(engineContainers, dockerUp, inspectFails)
     IN  /\ dockerPorts' = dps
         /\ results' = [ results EXCEPT !.applications =
                           [ i \in 1..Len(results.applications) |->
                               [ results.applications[i] EXCEPT
                                   !.ports = AppPorts(results.applications[i], dps) ] ] ]
  /\ pc' = "system-ports"
  /\ UNCHANGED << envVars, dockerUp, now, collects, cache, dockerContainers,
                  pidToContainerMap, processStartTimeMap, hostProcToContainerMap,
                  uniquePorts, platformOutcome >>

\* collect(): system-ports-collection.
SystemPortsCollection ==
  /\ pc = "system-ports"
  /\ cache' = CacheAfter(cache, "systemPorts",
                         GetSystemPorts(kernelRows, includeUdp, procWorks),
                         SystemPortsTtl, now)
  /\ pc' = "pid-map"
  /\ UNCHANGED << envVars, dockerUp, now, collects, results, dockerContainers,
                  dockerPorts, pidToContainerMap, processStartTimeMap,
                  hostProcToContainerMap, uniquePorts, platformOutcome >>

\* collect(): pid-to-container-mapping and process-start-times-collection.
PidToContainerMapping ==
  /\ pc = "pid-map"
  /\ pidToContainerMap' = BuildPidToContainerMap(engineContainers, dockerUp, inspectFails)
  /\ processStartTimeMap' = BuildProcessStartTimeMap(systemPorts)
  /\ pc' = "host-proc-map"
  /\ UNCHANGED << envVars, dockerUp, now, collects, cache, results, dockerContainers,
                  dockerPorts, hostProcToContainerMap, uniquePorts, platformOutcome >>

\* _buildHostProcToContainerMap.  When the fetch of the host-networked
\* containers throws, nothing is cached and the map stays empty; the
\* container list is read only when some container is host-networked.
BuildHostProcToContainerMap ==
  /\ pc = "host-proc-map"
  /\ LET hit == CacheHit(cache, "hostNetworkContainers", HostNetworkContainersTtl, now)
         fetchThrows == ~hit /\ ~dockerUp
         freshIds == HostNetworkContainerIds(engineContainers, inspectFails)
         hostIds == CachedOrFresh(cache, "hostNetworkContainers", freshIds,
                                  HostNetworkContainersTtl, now)
         c1 == CacheAfter(cache, "hostNetworkContainers", freshIds,
                          HostNetworkContainersTtl, now)
         freshCs == GetDockerContainers(engineContainers, dockerUp)
         cs == CachedOrFresh(c1, "dockerContainers", freshCs, CacheTimeout, now)
     IN  IF fetchThrows
           THEN /\ hostProcToContainerMap' = EmptyMap
                /\ cache' = cache
           ELSE IF Len(hostIds) = 0
             THEN /\ hostProcToContainerMap' = EmptyMap
                  /\ cache' = c1
             ELSE /\ hostProcToContainerMap' =
                       HostProcMap(hostIds, cs, engineContainers, dockerUp)
                  /\ cache' = CacheAfter(c1, "dockerContainers", freshCs, CacheTimeout, now)
  /\ pc' = "reconcile"
  /\ UNCHANGED << envVars, dockerUp, now, collects, results, dockerContainers,
                  dockerPorts, pidToContainerMap, processStartTimeMap, uniquePorts,
                  platformOutcome >>

\* collect(): port-reconciliation, the two loops that fill uniquePorts.
PortReconciliation ==
  /\ pc = "reconcile"
  /\ LET dps0 == [ i \in 1..Len(dockerPorts) |->
                     [ dockerPorts[i] EXCEPT !.created =
                         ContainerCreationTime(dockerContainers, dockerPorts[i].container_id) ] ]
         seeded == SeedDockerPorts(<< >>, dps0, 1)
         acc == MergeSystemPorts([ u |-> seeded, dps |-> dps0, sps |-> systemPorts ], 1,
                                 pidToContainerMap, hostProcToContainerMap,
                                 dockerContainers, processStartTimeMap)
     IN  /\ uniquePorts' = acc.u
         /\ dockerPorts' = acc.dps
         /\ cache' = [ cache EXCEPT !.systemPorts.data = acc.sps ]
  /\ pc' = "self-attribution"
  /\ UNCHANGED << envVars, dockerUp, now, collects, results, dockerContainers,
                  pidToContainerMap, processStartTimeMap, hostProcToContainerMap,
                  platformOutcome >>

\* The indices of the objects of one array that uniquePorts refers to.
Referenced(u, kind) == { u[i].idx : i \in { j \in 1..Len(u) : u[j].kind = kind } }

\* collect(): self-container-attribution over the values of uniquePorts.
SelfContainerAttribution ==
  /\ pc = "self-attribution"
  /\ LET attr(p) == SelfAttribute(p, engineContainers, dockerUp, dockerContainers)
     IN  /\ dockerPorts' = [ i \in 1..Len(dockerPorts) |->
                               IF i \in Referenced(uniquePorts, "docker")
                                 THEN attr(dockerPorts[i]) ELSE dockerPorts[i] ]
         /\ cache' = [ cache EXCEPT !.systemPorts.data =
                         [ i \in 1..Len(@) |->
                             IF i \in Referenced(uniquePorts, "system")
                               THEN attr(@[i]) ELSE @[i] ] ]
  /\ pc' = "filter"
  /\ UNCHANGED << envVars, dockerUp, now, collects, results, dockerContainers,
                  pidToContainerMap, processStartTimeMap, hostProcToContainerMap,
                  uniquePorts, platformOutcome >>

\* collect(): port-filtering.  The filter callback may re-attribute the
\* object it is called on; the objects it keeps are normalised into
\* results.ports in the order of uniquePorts.
PortFiltering ==
  /\ pc = "filter"
  /\ LET kept == SelectSeq(uniquePorts,
                   LAMBDA e : FilterKeeps(Deref(e, dockerPorts, systemPorts), includeUdp))
         after(p) == FilteredPort(p, results.applications)
     IN  /\ results' = [ results EXCEPT !.ports =
                           [ i \in 1..Len(kept) |->
                               NormalizePortEntry(
                                 after(Deref(kept[i], dockerPorts, systemPorts))) ] ]
         /\ dockerPorts' = [ i \in 1..Len(dockerPorts) |->
                               IF i \in Referenced(uniquePorts, "docker")
                                 THEN after(dockerPorts[i]) ELSE dockerPorts[i] ]
         /\ cache' = [ cache EXCEPT !.systemPorts.data =
                         [ i \in 1..Len(@) |->
                             IF i \in Referenced(uniquePorts, "system")
                               THEN after(@[i]) ELSE @[i] ] ]
  /\ pc' = "enhanced"
  /\ UNCHANGED << envVars, dockerUp, now, collects, dockerContainers,
                  pidToContainerMap, processStartTimeMap, hostProcToContainerMap,
                  uniquePorts, platformOutcome >>

\* collect(): enhanced-features-collection, then the report is returned.
EnhancedFeaturesPhase ==
  /\ pc = "enhanced"
  /\ platformOutcome' \in IF apiKey THEN PlatformOutcomes ELSE { "none" }
  /\ results' = EnhancedFeaturesCollection(results, apiKey, platformOutcome')
  /\ pc' = "done"
  /\ UNCHANGED << envVars, dockerUp, now, collects, cache, dockerContainers,
                  dockerPorts, pidToContainerMap, processStartTimeMap,
                  hostProcToContainerMap, uniquePorts >>

\* The seconds that pass between two refreshes.
RefreshDelays == { 10, 50 }

\* collect() has returned; time passes until the next refresh.
Tick ==
  /\ pc = "done"
  /\ \E d \in RefreshDelays : now' = now + d
  /\ pc' = "idle"
  /\ UNCHANGED << envVars, dockerUp, collects, cache, results, dockerContainers,
                  dockerPorts, pidToContainerMap, processStartTimeMap,
                  hostProcToContainerMap, uniquePorts, platformOutcome >>

Next ==
  \/ CollectStart
  \/ SystemInfoCollection
  \/ DockerContainersCollection
  \/ DockerPortsCollection
  \/ SystemPortsCollection
  \/ PidToContainerMapping
  \/ BuildHostProcToContainerMap
  \/ PortReconciliation
  \/ SelfContainerAttribution
  \/ PortFiltering
  \/ EnhancedFeaturesPhase
  \/ Tick

Spec == Init /\ [][Next]_vars

\* The collector as constructed, before its first collect().
ConstructedCollector ==
  /\ dockerUp = TRUE
  /\ now = 0
  /\ collects = 0
  /\ cache = EmptyCache
  /\ pc = "idle"
  /\ results = InitialResults(apiKey)
  /\ dockerContainers = << >>
  /\ dockerPorts = << >>
  /\ pidToContainerMap = EmptyMap
  /\ processStartTimeMap = EmptyMap
  /\ hostProcToContainerMap = EmptyMap
  /\ uniquePorts = << >>
  /\ platformOutcome = "none"

\* The collector on a host where the inspection of one listed container
\* throws (the container was removed after it was listed).
InitInspect ==
  /\ engineContainers \in Selections(ContainerPool, MaxContainers)
  /\ kernelRows \in Selections(KernelRowPool, MaxListeners)
  /\ includeUdp \in BOOLEAN
  /\ apiKey = FALSE
  /\ procWorks = TRUE
  /\ inspectFails \in { engineContainers[i].Id : i \in 1..Len(engineContainers) }
  /\ ConstructedCollector
  /\ NewTtlCache
  /\ NoDetection
  /\ NoParse
  /\ NoLater
  /\ cacheDisabled = FALSE
  /\ ttlContainers = 1

SpecInspect == InitInspect /\ [][Next]_vars

\* ------------------------------------------------- calls on the caches
\* SimpleTTLCache.set.
CacheSet ==
  \E k \in CacheKeys, v \in CacheValues :
    /\ store' = TtlSet(store, k, v, ttlContainers, now)
    /\ setAt' = [ setAt EXCEPT ![k] = StoreMade(v, now) ]
    /\ lastOp' = Op("set", k, v, FALSE)
    /\ UNCHANGED << collectVars, now, cache, inflight >>

\* SimpleTTLCache.get.
CacheGet ==
  \E k \in CacheKeys :
    LET g == TtlGet(store, k, now)
    IN  /\ store' = g.store
        /\ lastOp' = Op("get", k, g.ret, FALSE)
        /\ UNCHANGED << collectVars, now, cache, inflight, setAt >>

\* SimpleTTLCache.delete.
CacheDelete ==
  \E k \in CacheKeys :
    /\ store' = MapDelete(store, k)
    /\ setAt' = [ setAt EXCEPT ![k] = NoStore ]
    /\ lastOp' = Op("delete", k, Undefined, FALSE)
    /\ UNCHANGED << collectVars, now, cache, inflight >>

\* SimpleTTLCache.clear.
CacheClear ==
  /\ store' = EmptyMap
  /\ setAt' = [ k \in CacheKeys |-> NoStore ]
  /\ lastOp' = Op("clear", "none", Undefined, FALSE)
  /\ UNCHANGED << collectVars, now, cache, inflight >>

\* SimpleTTLCache.getOrSet up to its await: a hit returns the cached value,
\* a miss invokes fetchFn.
CacheGetOrSet ==
  \E k \in CacheKeys, out \in FetchOutcomes :
    LET g == TtlGet(store, k, now)
    IN  /\ store' = g.store
        /\ IF g.ret # Undefined
             THEN /\ lastOp' = Op("getOrSet", k, g.ret, FALSE)
                  /\ inflight' = inflight
             ELSE /\ Len(inflight) < MaxInflight
                  /\ lastOp' = Op("getOrSet", k, Undefined, TRUE)
                  /\ inflight' = Begun(inflight, "ttl", k, out, 0)
        /\ UNCHANGED << collectVars, now, cache, setAt >>

\* SimpleTTLCache.getOrSet after its await: fetchFn has settled.
CacheFetchSettles ==
  \E i \in 1..Len(inflight) :
    LET c == inflight[i]
    IN  /\ c.kind = "ttl"
        /\ store' = TtlAfterFetch(store, c.key, c.out, ttlContainers, now)
        /\ setAt' = IF c.out \in CacheValues
                      THEN [ setAt EXCEPT ![c.key] = StoreMade(c.out, now) ]
                      ELSE setAt
        /\ lastOp' = Op(IF c.overlap THEN "settleOverlapped" ELSE "settle",
                        c.key, c.out, FALSE)
        /\ inflight' = Settled(inflight, i)
        /\ UNCHANGED << collectVars, now, cache >>

\* TrueNASCollector._getCachedOrFresh("systemPorts", ...) up to its await.
CachedOrFreshCall ==
  \E out \in CacheValues :
    /\ IF ~cacheDisabled /\ CacheHit(cache, "systemPorts", SystemPortsTtl, now)
         THEN /\ lastOp' = Op("cachedOrFresh", "systemPorts", cache.systemPorts.data, FALSE)
              /\ inflight' = inflight
         ELSE /\ Len(inflight) < MaxInflight
              /\ lastOp' = Op("cachedOrFresh", "systemPorts", Undefined, TRUE)
              /\ inflight' = Begun(inflight, "collector", "systemPorts", out, now)
    /\ UNCHANGED << collectVars, now, cache, store, setAt >>

\* TrueNASCollector._getCachedOrFresh after its await.
CachedOrFreshSettles ==
  \E i \in 1..Len(inflight) :
    LET c == inflight[i]
    IN  /\ c.kind = "collector"
        /\ cache' = IF cacheDisabled THEN cache
                    ELSE CacheStore(cache, c.key, c.out, c.began)
        /\ lastOp' = Op(IF c.overlap THEN "settleFreshOverlapped" ELSE "settleFresh",
                        c.key, c.out, FALSE)
        /\ inflight' = Settled(inflight, i)
        /\ UNCHANGED << collectVars, now, store, setAt >>

\* Date.now() advances.
ClockTick ==
  /\ now < MaxClock
  /\ now' = now + 1
  /\ lastOp' = NoOp
  /\ UNCHANGED << collectVars, cache, store, inflight, setAt >>

NextCache ==
  \/ CacheSet
  \/ CacheGet
  \/ CacheDelete
  \/ CacheClear
  \/ CacheGetOrSet
  \/ CacheFetchSettles
  \/ CachedOrFreshCall
  \/ CachedOrFreshSettles
  \/ ClockTick

\* A collector that is not collecting, its caches empty.
InitCache ==
  /\ engineContainers = << >>
  /\ kernelRows = << >>
  /\ includeUdp = FALSE
  /\ apiKey = FALSE
  /\ procWorks = TRUE
  /\ inspectFails = Null
  /\ ConstructedCollector
  /\ NewTtlCache
  /\ NoDetection
  /\ NoParse
  /\ NoLater
  /\ cacheDisabled \in BOOLEAN
  /\ ttlContainers \in TtlChoices

SpecCache == InitCache /\ [][NextCache]_vars

\* ------------------------------------------------------------------ claims
\* The report of the current collect() holds its final port list.
PortsEmitted == pc \in { "enhanced", "done" }

\* The listener pid a system port object carries (in its array pids).
ListenerPid(p) == IF Len(p.pids) > 0 THEN p.pids[1] ELSE NoPid

\* The known-UDP allow-list of the specification.
KnownUdpAllowList ==
  { 53, 67, 68, 123, 137, 138, 161, 162, 500, 514, 1194, 1198, 4500,
    51820, 51821, 51822 }

\* C1: in the ports list of one collect(), no two records with
\* internal=false share (host_ip, host_port, protocol), and no two records
\* with internal=true share (container_id, host_port, protocol).
C1_UniqueTriples ==
  \A i, j \in 1..Len(results.ports) :
    LET a == results.ports[i]
        b == results.ports[j]
    IN  i # j =>
          /\ (~a.internal /\ ~b.internal) =>
               << a.host_ip, a.host_port, a.protocol >> # << b.host_ip, b.host_port, b.protocol >>
          /\ (a.internal /\ b.internal) =>
               << a.container_id, a.host_port, a.protocol >>
                 # << b.container_id, b.host_port, b.protocol >>

\* A collect() has returned in which a container port and a system port had
\* the same (host_ip, host_port, protocol), and an internal port was emitted.
C1_Witness ==
  /\ pc = "done"
  /\ \E i \in 1..Len(dockerPorts), j \in 1..Len(systemPorts) :
       /\ ~dockerPorts[i].internal
       /\ dockerPorts[i].host_ip = systemPorts[j].host_ip
       /\ dockerPorts[i].host_port = systemPorts[j].host_port
       /\ dockerPorts[i].protocol = systemPorts[j].protocol
  /\ \E i \in 1..Len(results.ports) : results.ports[i].internal

\* C2: when a container publishes (host_ip, host_port) and a system
\* listener with a pid exists on the same (host_ip, host_port), collect()
\* emits exactly one record for that endpoint; it keeps the container's
\* source, owner, target and container_id, and its pid is the system
\* listener's pid.
C2_ContainerOutranksSystem ==
  pc = "done" =>
    \A j \in 1..Len(systemPorts) :
      LET sp == systemPorts[j]
          publishers == { i \in 1..Len(dockerPorts) :
                            /\ ~dockerPorts[i].internal
                            /\ dockerPorts[i].host_ip = sp.host_ip
                            /\ dockerPorts[i].host_port = sp.host_port }
          emitted == { k \in 1..Len(results.ports) :
                         /\ ~results.ports[k].internal
                         /\ results.ports[k].host_ip = sp.host_ip
                         /\ results.ports[k].host_port = sp.host_port }
      IN  (publishers # { } /\ ListenerPid(sp) # NoPid) =>
            /\ Cardinality(emitted) = 1
            /\ \A k \in emitted :
                 /\ \E i \in publishers :
                      /\ results.ports[k].source = "docker"
                      /\ results.ports[k].owner = dockerPorts[i].owner
                      /\ results.ports[k].target = dockerPorts[i].target
                      /\ results.ports[k].container_id = dockerPorts[i].container_id
                 /\ \E l \in 1..Len(systemPorts) :
                      /\ systemPorts[l].host_ip = sp.host_ip
                      /\ systemPorts[l].host_port = sp.host_port
                      /\ results.ports[k].pid = ListenerPid(systemPorts[l])
                      /\ results.ports[k].pid # NoPid

\* C3: right after reconciliation, a system port inserted by the reconciler
\* whose listener pid is in pidToContainer, or otherwise in
\* hostProcToContainer, has source = container, that container's id as
\* container_id and app_id, its name as owner and target = host_port; a port
\* whose pid is in neither map has source = system and no container_id.
C3_PidPromotion ==
  pc = "self-attribution" =>
    \A n \in 1..Len(uniquePorts) :
      uniquePorts[n].kind = "system" =>
        LET p == systemPorts[uniquePorts[n].idx]
            pid == ListenerPid(p)
            promotedTo(info) ==
              /\ p.source = "docker"
              /\ p.container_id = info.id
              /\ p.app_id = info.id
              /\ p.owner = info.name
              /\ p.target = NumStr(p.host_port)
        IN  IF pid # NoPid /\ pid \in DOMAIN pidToContainerMap
              THEN promotedTo(pidToContainerMap[pid])
            ELSE IF pid # NoPid /\ pid \in DOMAIN hostProcToContainerMap
              THEN promotedTo(hostProcToContainerMap[pid])
            ELSE p.source = "system" /\ p.container_id = Null

\* C4: in every record of the ports list, after any combination of seeding,
\* PID-map promotion, self-attribution and known-port enrichment, a set
\* container_id implies that source is the container source (or the
\* platform); no record has source = system together with a container_id.
C4_ContainerIdImpliesSource ==
  \A k \in 1..Len(results.ports) :
    results.ports[k].container_id # Null =>
      results.ports[k].source \in { "docker", "truenas" }

C4_Witness ==
  /\ pc = "done"
  /\ \E k \in 1..Len(results.ports) :
       /\ results.ports[k].host_port = OurPort
       /\ results.ports[k].container_id # Null
       /\ \A i \in 1..Len(dockerPorts) : dockerPorts[i].host_port # OurPort
  /\ \E k \in 1..Len(results.ports) :
       /\ results.ports[k].host_port = 51820
       /\ results.ports[k].protocol = "udp"
       /\ results.ports[k].container_id # Null
       /\ \A i \in 1..Len(dockerPorts) : dockerPorts[i].host_port # 51820

\* C5: protocol filtering.  Every TCP port that survived dedup is in the
\* ports list; with INCLUDE_UDP off every UDP record of the list is
\* container-sourced or on a port of the known-UDP allow-list; with
\* INCLUDE_UDP on every system UDP port that survived dedup is in the list.
C5_ProtocolFiltering ==
  PortsEmitted =>
    /\ \A n \in 1..Len(uniquePorts) :
         LET p == Deref(uniquePorts[n], dockerPorts, systemPorts)
         IN  /\ p.protocol = "tcp" => NormalizePortEntry(p) \in Range(results.ports)
             /\ (includeUdp /\ p.protocol = "udp" /\ p.source = "system") =>
                  NormalizePortEntry(p) \in Range(results.ports)
    /\ ~includeUdp =>
         \A k \in 1..Len(results.ports) :
           results.ports[k].protocol = "udp" =>
             \/ results.ports[k].source = "docker"
             \/ results.ports[k].host_port \in KnownUdpAllowList

C5_Witness ==
  /\ pc = "done"
  /\ ~includeUdp
  /\ \E n \in 1..Len(uniquePorts) :
       LET p == Deref(uniquePorts[n], dockerPorts, systemPorts)
       IN  /\ p.protocol = "udp"
           /\ p.source = "system"
           /\ NormalizePortEntry(p) \notin Range(results.ports)
  /\ \E k \in 1..Len(results.ports) :
       results.ports[k].protocol = "udp" /\ results.ports[k].source = "system"
  /\ \E k \in 1..Len(results.ports) : results.ports[k].protocol = "tcp"

C5_WitnessIncludeUdp ==
  /\ pc = "done"
  /\ includeUdp
  /\ \E k \in 1..Len(results.ports) :
       /\ results.ports[k].protocol = "udp"
       /\ results.ports[k].source = "system"
       /\ results.ports[k].host_port \notin KnownUdpAllowList

\* C6: with INCLUDE_UDP off, a system UDP listener on a port of the
\* known-UDP allow-list whose endpoint is not owned by a container port is
\* present in the ports list returned by collect().
C6_AllowListedUdpPresent ==
  (pc = "done" /\ ~includeUdp) =>
    \A r \in 1..Len(kernelRows) :
      LET row == kernelRows[r]
      IN  ( /\ row.file \in { "udp", "udp6" }
            /\ row.port \in KnownUdpAllowList
            /\ \A i \in 1..Len(dockerPorts) :
                 dockerPorts[i].internal \/ dockerPorts[i].host_port # row.port ) =>
            \E k \in 1..Len(results.ports) :
              /\ results.ports[k].protocol = "udp"
              /\ results.ports[k].host_port = row.port

\* C7: every record of the ports list has host_port in 1..65535 and
\* protocol tcp or udp, whatever the kernel rows, ss rows, container port
\* bindings (an empty or non-numeric host port included) and exposed ports.
C7_PortAndProtocolInRange ==
  \A k \in 1..Len(results.ports) :
    /\ results.ports[k].host_port \in 1..65535
    /\ results.ports[k].protocol \in { "tcp", "udp" }

\* The fields of the report collect() returns.
ReportFields ==
  { "platform", "platformName", "systemInfo", "applications", "ports", "vms",
    "error", "enhancedFeaturesEnabled" }

\* No source produced a record during this collect(): the engine did not
\* answer, no port was found and the platform gave nothing.
EverySourceFailed ==
  /\ ~dockerUp
  /\ results.applications = << >>
  /\ results.ports = << >>
  /\ results.vms = << >>
  /\ ~results.systemInfo.enhanced

\* C8: collect() always returns a report with the fields platform,
\* platformName, systemInfo, applications, ports, vms, error and
\* enhancedFeaturesEnabled; its error is set when every source failed and is
\* null when at least one source produced data.
C8_ErrorIffEverySourceFailed ==
  pc = "done" =>
    /\ DOMAIN results = ReportFields
    /\ EverySourceFailed => results.error # Null
    /\ ~EverySourceFailed => results.error = Null

\* C9: when the platform phase of a collect() with credentials present
\* times out or fails entirely, the returned report has
\* enhancedFeaturesEnabled = false and holds no platform apps or vms.
C9_PlatformFailureDisablesEnhanced ==
  (pc = "done" /\ apiKey /\ platformOutcome \in { "timeout", "unreachable" }) =>
    /\ results.enhancedFeaturesEnabled = FALSE
    /\ \A i \in 1..Len(results.applications) :
         results.applications[i].platform # "truenas"
    /\ results.vms = << >>

\* C10: without an API key collect() returns enhancedFeaturesEnabled = false
\* and vms = [], and every other field of the report equals that of a
\* collect() on the same local inputs with the key set and the platform
\* unreachable (every call rejected, or no answer before the timer).
C10_KeylessEqualsUnreachable ==
  [][ (pc = "enhanced" /\ pc' = "done" /\ ~apiKey) =>
        /\ results'.enhancedFeaturesEnabled = FALSE
        /\ results'.vms = << >>
        /\ \A o \in { "unreachable", "timeout" } :
             LET withKey == EnhancedFeaturesCollection(
                              [ results EXCEPT !.enhancedFeaturesEnabled = TRUE ], TRUE, o)
             IN  \A f \in ReportFields \ { "enhancedFeaturesEnabled", "vms" } :
                   results'[f] = withKey[f] ]_vars

C10_Witness ==
  /\ pc = "done"
  /\ ~apiKey
  /\ platformOutcome = "none"
  /\ results.applications # << >>
  /\ results.ports # << >>
  /\ results.enhancedFeaturesEnabled = FALSE

\* C11: when the inspection of one container fails during collect(), that
\* container stays in the applications list with empty port metadata, and
\* the port records and port metadata of every other container are emitted.
C11_InspectFailureIsLocal ==
  (pc = "done" /\ dockerUp /\ inspectFails # Null) =>
    \A i \in 1..Len(engineContainers) :
      LET c == engineContainers[i]
          apps == { a \in 1..Len(results.applications) :
                      results.applications[a].id = c.Id }
      IN  /\ apps # { }
          /\ c.Id = inspectFails =>
               \A a \in apps : results.applications[a].ports = << >>
          /\ (c.Id # inspectFails /\ ContainerPorts(c) # << >>) =>
               /\ \A a \in apps : results.applications[a].ports # << >>
               /\ \E k \in 1..Len(results.ports) : results.ports[k].container_id = c.Id


\* ---------------------------------------------------- collector detection
\* detectCollector(), called once at start-up.
Detect ==
  /\ ~detection.made
  /\ LET outcomes == CandidateOutcomes(signals, apiKey, candidateScores)
     IN  detection' = [ made |-> TRUE, scores |-> outcomes,
                        collector |-> DetectCollector(outcomes) ]
  /\ UNCHANGED << engineContainers, kernelRows, includeUdp, apiKey, procWorks,
                  inspectFails, ttlVars, signals, candidateScores, dockerUp, now,
                  collects, cache, pc, results, dockerContainers, dockerPorts,
                  pidToContainerMap, processStartTimeMap, hostProcToContainerMap,
                  uniquePorts, platformOutcome, parseVars, laterVars >>

NextDetect == Detect

\* A host of any shape on which detectCollector has not run yet.
InitDetect ==
  /\ engineContainers = << >>
  /\ kernelRows = << >>
  /\ includeUdp = FALSE
  /\ apiKey \in BOOLEAN
  /\ procWorks = TRUE
  /\ inspectFails = Null
  /\ ConstructedCollector
  /\ NewTtlCache
  /\ cacheDisabled = FALSE
  /\ ttlContainers = 1
  /\ signals \in SignalChoices
  /\ candidateScores \in [ docker : ScoreOutcomes, system : ScoreOutcomes ]
  /\ detection = NotDetected
  /\ NoParse
  /\ NoLater

SpecDetect == InitDetect /\ [][NextDetect]_vars

\* ------------------------------------------------------ address parsing
\* _parseHexAddress on the local address of a row.
ParseAddress ==
  /\ hostIp = Null
  /\ hostIp' = ParseHexAddress(localAddress.hex)
  /\ UNCHANGED << engineContainers, kernelRows, includeUdp, apiKey, procWorks,
                  inspectFails, ttlVars, detectVars, localAddress, dockerUp, now,
                  collects, cache, pc, results, dockerContainers, dockerPorts,
                  pidToContainerMap, processStartTimeMap, hostProcToContainerMap,
                  uniquePorts, platformOutcome, laterVars >>

NextParse == ParseAddress

\* A row with any of the local addresses, not parsed yet.
InitParse ==
  /\ engineContainers = << >>
  /\ kernelRows = << >>
  /\ includeUdp = FALSE
  /\ apiKey = FALSE
  /\ procWorks = TRUE
  /\ inspectFails = Null
  /\ ConstructedCollector
  /\ NewTtlCache
  /\ NoDetection
  /\ cacheDisabled = FALSE
  /\ ttlContainers = 1
  /\ localAddress \in LocalAddresses
  /\ hostIp = Null
  /\ NoLater

SpecParse == InitParse /\ [][NextParse]_vars

\* ------------------------------------------------------ system port methods
\* _getSystemPorts: the next method is tried; its list is returned, or the
\* call moves on to the following method, or past the last one returns [].
TryMethod ==
  /\ ~scan.returned
  /\ scan.next <= Len(MethodOrder)
  /\ LET m == MethodOrder[scan.next]
         out == methods[m]
     IN  scan' = IF Returns(m, out)
                   THEN [ next |-> scan.next, tried |-> Append(scan.tried, m),
                          returned |-> TRUE, ports |-> MethodPorts(m, out) ]
                 ELSE [ next |-> scan.next + 1, tried |-> Append(scan.tried, m),
                        returned |-> scan.next = Len(MethodOrder), ports |-> << >> ]
  /\ UNCHANGED << engineContainers, kernelRows, includeUdp, apiKey, procWorks,
                  inspectFails, ttlVars, detectVars, parseVars, methods, resolveVars,
                  rpcVars, factoryVars, dockerUp, now,
                  collects, cache, pc, results, dockerContainers, dockerPorts,
                  pidToContainerMap, processStartTimeMap, hostProcToContainerMap,
                  uniquePorts, platformOutcome >>

NextScan == TryMethod

\* A host whose methods behave in any way, _getSystemPorts just called.
InitScan ==
  /\ engineContainers = << >>
  /\ kernelRows = << >>
  /\ includeUdp = FALSE
  /\ apiKey = FALSE
  /\ procWorks = TRUE
  /\ inspectFails = Null
  /\ ConstructedCollector
  /\ NewTtlCache
  /\ NoDetection
  /\ NoParse
  /\ cacheDisabled = FALSE
  /\ ttlContainers = 1
  /\ methods \in [ proc : ProcOutcomes, ss : CommandOutcomes, netstat : CommandOutcomes,
                    nsenter : CommandOutcomes ]
  /\ scan = [ next |-> 1, tried |-> << >>, returned |-> FALSE, ports |-> << >> ]
  /\ NoResolve
  /\ NoRpc
  /\ NoFactory

SpecScan == InitScan /\ [][NextScan]_vars

\* -------------------------------------------------------- owner resolution
\* getTcpPorts / getUdpPorts: the owners of the retained listeners are
\* resolved, with the fallbacks the counts call for.
ResolveOwners ==
  /\ ~fallbacks.done
  /\ fallbacks' = FallbacksRun(parseCounts.ports, parseCounts.resolved,
                             parseCounts.additional)
  /\ UNCHANGED << engineContainers, kernelRows, includeUdp, apiKey, procWorks,
                  inspectFails, ttlVars, detectVars, parseVars, scanVars, parseCounts,
                  rpcVars, factoryVars, dockerUp, now, collects, cache, pc, results, dockerContainers,
                  dockerPorts, pidToContainerMap, processStartTimeMap,
                  hostProcToContainerMap, uniquePorts, platformOutcome >>

NextResolve == ResolveOwners

\* A socket table with any number of listeners, of resolved owners and of
\* owners a rescan can add.
InitResolve ==
  /\ engineContainers = << >>
  /\ kernelRows = << >>
  /\ includeUdp = FALSE
  /\ apiKey = FALSE
  /\ procWorks = TRUE
  /\ inspectFails = Null
  /\ ConstructedCollector
  /\ NewTtlCache
  /\ NoDetection
  /\ NoParse
  /\ NoScan
  /\ cacheDisabled = FALSE
  /\ ttlContainers = 1
  /\ parseCounts \in { c \in OwnerCounts :
                     c.resolved <= c.ports /\ c.additional <= c.ports - c.resolved }
  /\ fallbacks = [ done |-> FALSE, rescan |-> FALSE, tool |-> FALSE ]
  /\ NoRpc
  /\ NoFactory

SpecResolve == InitResolve /\ [][NextResolve]_vars

\* ----------------------------------------------------------- platform phase
\* What a step of the platform phase leaves alone.
rpcFrame ==
  << engineContainers, kernelRows, includeUdp, apiKey, procWorks, inspectFails,
     ttlVars, detectVars, parseVars, scanVars, resolveVars, factoryVars, dockerUp, now,
     collects, cache, pc, results, dockerContainers, dockerPorts,
     pidToContainerMap, processStartTimeMap, hostProcToContainerMap,
     uniquePorts, platformOutcome >>

\* collect() is called: it begins with the system info.
RpcCollectStart ==
  /\ rpcPc = "idle"
  /\ rpcCollect < MaxRpcCollects
  /\ rpcCollect' = rpcCollect + 1
  /\ rpcPc' = LocalStages[1]
  /\ UNCHANGED << thisClient, rpcTasks, rpcOutcome, rpcFrame >>

\* collect(): a local stage ends (system info, container list, ports with
\* their reconciliation) and the next stage begins; after the last one comes
\* "enhanced-features-collection".
RpcLocalStage ==
  /\ \E i \in 1..Len(LocalStages) :
       /\ rpcPc = LocalStages[i]
       /\ rpcPc' = IF i < Len(LocalStages) THEN LocalStages[i + 1]
                   ELSE "enhanced-features-collection"
  /\ UNCHANGED << thisClient, rpcCollect, rpcTasks, rpcOutcome, rpcFrame >>

\* collect(): "enhanced-features-collection" begins.  With an API key the
\* 15 s timer is set and _collectEnhancedFeatures() is called, which runs up
\* to its first await, this.client.call("system.info"); collect() then
\* awaits the Promise.race.  Without a key the stage is over at once.
RpcStartPhase ==
  /\ rpcPc = "enhanced-features-collection"
  /\ IF apiKey
       THEN /\ rpcTasks' = [ rpcTasks EXCEPT ![rpcCollect] = Awaiting(1, thisClient, { }) ]
            /\ rpcPc' = "race"
       ELSE /\ rpcTasks' = rpcTasks
            /\ rpcPc' = "done"
  /\ UNCHANGED << thisClient, rpcCollect, rpcOutcome, rpcFrame >>

\* _collectEnhancedFeatures of collect() number c: the call it awaits
\* settles (a rejection is caught and logged); it makes its next call on
\* this.client, or returns after the last one.  Nothing stops it when the
\* race it was started for has already been lost to the timer.
RpcCallSettles ==
  /\ \E c \in 1..MaxRpcCollects, answered \in BOOLEAN :
       /\ rpcTasks[c].state = "awaiting"
       /\ LET got == IF answered THEN rpcTasks[c].got \cup { RpcMethods[rpcTasks[c].call] }
                     ELSE rpcTasks[c].got
          IN  rpcTasks' = [ rpcTasks EXCEPT ![c] =
                             IF rpcTasks[c].call < Len(RpcMethods)
                               THEN Awaiting(rpcTasks[c].call + 1, thisClient, got)
                             ELSE [ state |-> "returned", call |-> rpcTasks[c].call,
                                    client |-> rpcTasks[c].client, got |-> got ] ]
  /\ UNCHANGED << thisClient, rpcCollect, rpcPc, rpcOutcome, rpcFrame >>

\* collect(): _collectEnhancedFeatures() has returned, the race resolves
\* with its data; finally closes this.client and collect() returns.
RpcRaceResolves ==
  /\ rpcPc = "race"
  /\ rpcTasks[rpcCollect].state = "returned"
  /\ rpcOutcome' = [ rpcOutcome EXCEPT ![rpcCollect] = "resolved" ]
  /\ rpcPc' = "done"
  /\ UNCHANGED << thisClient, rpcCollect, rpcTasks, rpcFrame >>

\* collect(): the 15 s timer fires first, the race rejects; the error is
\* logged, finally closes this.client and collect() returns.
RpcTimeout ==
  /\ rpcPc = "race"
  /\ rpcTasks[rpcCollect].state = "awaiting"
  /\ rpcOutcome' = [ rpcOutcome EXCEPT ![rpcCollect] = "timeout" ]
  /\ rpcPc' = "done"
  /\ UNCHANGED << thisClient, rpcCollect, rpcTasks, rpcFrame >>

\* The report was returned; the collector waits for the next collect().
RpcReturn ==
  /\ rpcPc = "done"
  /\ rpcPc' = "idle"
  /\ UNCHANGED << thisClient, rpcCollect, rpcTasks, rpcOutcome, rpcFrame >>

NextRpc ==
  \/ RpcCollectStart
  \/ RpcLocalStage
  \/ RpcStartPhase
  \/ RpcCallSettles
  \/ RpcRaceResolves
  \/ RpcTimeout
  \/ RpcReturn

\* A collector just constructed, with or without an API key.
InitRpc ==
  /\ engineContainers = << >>
  /\ kernelRows = << >>
  /\ includeUdp = FALSE
  /\ apiKey \in BOOLEAN
  /\ procWorks = TRUE
  /\ inspectFails = Null
  /\ ConstructedCollector
  /\ NewTtlCache
  /\ NoDetection
  /\ NoParse
  /\ NoScan
  /\ NoResolve
  /\ cacheDisabled = FALSE
  /\ ttlContainers = 1
  /\ NoRpc
  /\ NoFactory

SpecRpc == InitRpc /\ [][NextRpc]_vars

\* -------------------------------------------------------- collector registry
\* What a call on the registry leaves alone.
factoryFrame ==
  << engineContainers, kernelRows, includeUdp, apiKey, procWorks, inspectFails,
     ttlVars, detectVars, parseVars, scanVars, resolveVars, rpcVars, dockerUp, now,
     collects, cache, pc, results, dockerContainers, dockerPorts,
     pidToContainerMap, processStartTimeMap, hostProcToContainerMap,
     uniquePorts, platformOutcome >>

\* The body of createCollector for key: the registered instance is kept, or
\* a new one is constructed with config, registered, and its initialize()
\* invoked when it is a function; the promise is kept unless the call threw.
\* The instance returned is collectorInstances'[key].
Create(key, config, initialize) ==
  IF Registered(collectorInstances, key)
    THEN UNCHANGED << collectorInstances, collectorInitState, instances >>
  ELSE /\ Len(instances) < MaxInstances
       /\ instances' = Append(instances,
                             [ config |-> config, initialize |-> initialize,
                               invoked |-> IF initialize = "absent" THEN 0 ELSE 1 ])
       /\ collectorInstances' = [ collectorInstances EXCEPT ![key] = Len(instances) + 1 ]
       /\ collectorInitState' =
            IF initialize = "pending"
              THEN [ collectorInitState EXCEPT ![key] = Len(instances) + 1 ]
            ELSE collectorInitState

\* createCollector(platform, config).
CreateCollector ==
  /\ \E platform \in PlatformArgs, config \in ConfigChoices :
     \E initialize \in InitializeOf(collectorInstances, KeyOf(platform)) :
       /\ Create(KeyOf(platform), config, initialize)
       /\ factoryCall' = Returned("createCollector", KeyOf(platform), config,
                                  collectorInstances'[KeyOf(platform)])
  /\ UNCHANGED << asyncCall, factoryFrame >>

\* getCollectorAsync(platform, config) up to its await: the instance is
\* taken from createCollector and the init promise of the key is read.
GetCollectorAsync ==
  /\ ~asyncCall.pending
  /\ \E platform \in PlatformArgs, config \in ConfigChoices :
     \E initialize \in InitializeOf(collectorInstances, KeyOf(platform)) :
       /\ Create(KeyOf(platform), config, initialize)
       /\ asyncCall' = [ pending |-> TRUE, key |-> KeyOf(platform),
                         inst |-> collectorInstances'[KeyOf(platform)],
                         awaits |-> collectorInitState'[KeyOf(platform)] ]
  /\ UNCHANGED << factoryCall, factoryFrame >>

\* getCollectorAsync: there was no init promise, or the one awaited is
\* fulfilled; the call resolves to the instance it took.
GetCollectorAsyncResolves ==
  /\ asyncCall.pending
  /\ IF asyncCall.awaits = 0 THEN TRUE
     ELSE InitSettled(instances[asyncCall.awaits].initialize)
  /\ factoryCall' = Returned("getCollectorAsync", asyncCall.key, FALSE, asyncCall.inst)
  /\ asyncCall' = NoAsync
  /\ UNCHANGED << collectorInstances, collectorInitState, instances, factoryFrame >>

\* The promise returned by an instance's initialize() resolves or rejects.
InitializeSettles ==
  /\ \E i \in 1..Len(instances), outcome \in { "resolved", "rejected" } :
       /\ instances[i].initialize = "pending"
       /\ instances' = [ instances EXCEPT ![i].initialize = outcome ]
  /\ UNCHANGED << collectorInstances, collectorInitState, factoryCall, asyncCall,
                  factoryFrame >>

\* detectCollector(config), from the end of its loop over the candidates
\* (whose instances are temporary and never registered): the collector of
\* the type detected is created with { debug }.
DetectCollectorCall ==
  /\ \E outcomes \in DetectionChoices, config \in ConfigChoices :
     \E initialize \in InitializeOf(collectorInstances, DetectCollector(outcomes)) :
       /\ Create(DetectCollector(outcomes), config, initialize)
       /\ factoryCall' = Returned("detectCollector", DetectCollector(outcomes), FALSE,
                                  collectorInstances'[DetectCollector(outcomes)])
  /\ UNCHANGED << asyncCall, factoryFrame >>

\* resetCollectors().
ResetCollectors ==
  /\ collectorInstances' = [ k \in PlatformKeys |-> 0 ]
  /\ collectorInitState' = [ k \in PlatformKeys |-> 0 ]
  /\ factoryCall' = Returned("resetCollectors", Null, FALSE, 0)
  /\ UNCHANGED << instances, asyncCall, factoryFrame >>

NextFactory ==
  \/ CreateCollector
  \/ GetCollectorAsync
  \/ GetCollectorAsyncResolves
  \/ InitializeSettles
  \/ DetectCollectorCall
  \/ ResetCollectors

\* index.js just loaded.
InitFactory ==
  /\ engineContainers = << >>
  /\ kernelRows = << >>
  /\ includeUdp = FALSE
  /\ apiKey = FALSE
  /\ procWorks = TRUE
  /\ inspectFails = Null
  /\ ConstructedCollector
  /\ NewTtlCache
  /\ NoDetection
  /\ NoParse
  /\ NoScan
  /\ NoResolve
  /\ NoRpc
  /\ cacheDisabled = FALSE
  /\ ttlContainers = 1
  /\ NoFactory

SpecFactory == InitFactory /\ [][NextFactory]_vars

\* C12: after set(k, v, ttl) with ttl > 0, get(k) returns v while the time is
\* at most the set time plus ttl and undefined later, and the first expired
\* get removes the entry; with ttl <= 0 the entry is stored with expiry 0 and
\* get(k) returns v at every later time, until k is set again, deleted or
\* the cache is cleared.
C12_TtlExpiry ==
  (lastOp.op = "get" /\ setAt[lastOp.key].made) =>
    LET k == lastOp.key
        s == setAt[k]
    IN  IF ttlContainers > 0
          THEN /\ now <= s.at + ttlContainers => lastOp.ret = s.value
               /\ now > s.at + ttlContainers =>
                    lastOp.ret = Undefined /\ k \notin DOMAIN store
          ELSE /\ lastOp.ret = s.value
               /\ k \in DOMAIN store /\ store[k].expires = 0

\* A get made after the expiry time of an entry that was set with ttl > 0.
C12_Witness ==
  /\ lastOp.op = "get" /\ setAt[lastOp.key].made
  /\ ttlContainers > 0 /\ now > setAt[lastOp.key].at + ttlContainers
  /\ lastOp.ret = Undefined

\* A get made at a later time than the set of an entry with ttl <= 0.
C12_WitnessNoExpiry ==
  /\ lastOp.op = "get" /\ setAt[lastOp.key].made
  /\ ttlContainers <= 0 /\ now > setAt[lastOp.key].at
  /\ lastOp.ret \in CacheValues

\* The TTL window opened by the last store of key k is still open at time t.
WindowOpen(k, t) ==
  setAt[k].made /\ (ttlContainers <= 0 \/ t <= setAt[k].at + ttlContainers)

\* C13: a getOrSet made while no other call is awaiting its fetch invokes
\* fetchFn exactly when no TTL window of the key is open, so fetchFn runs at
\* most once per window; when fetchFn resolves with undefined or rejects,
\* nothing is stored and the next getOrSet invokes fetchFn again.
C13_Step ==
  /\ (lastOp'.op = "getOrSet" /\ inflight = << >>) =>
       /\ lastOp'.invoked <=> ~WindowOpen(lastOp'.key, now)
       /\ ~lastOp'.invoked => lastOp'.ret = setAt[lastOp'.key].value
  /\ (lastOp'.op = "settle" /\ lastOp'.ret \in { Undefined, Throws }) =>
       store' = store
  /\ (/\ lastOp.op = "settle" /\ lastOp.ret \in { Undefined, Throws }
      /\ lastOp'.op = "getOrSet" /\ lastOp'.key = lastOp.key
      /\ lastOp.key \notin DOMAIN store) =>
       lastOp'.invoked

C13_FetchOncePerWindow == [][C13_Step]_vars

\* A getOrSet served from the stored entry, its fetchFn not invoked.
C13_Witness ==
  /\ lastOp.op = "getOrSet" /\ ~lastOp.invoked /\ lastOp.ret \in CacheValues
  /\ inflight = << >>

\* A getOrSet whose fetchFn rejected has returned and stored nothing.
C13_WitnessFailedFetch ==
  /\ lastOp.op = "settle" /\ lastOp.ret \in { Undefined, Throws }
  /\ lastOp.key \notin DOMAIN store

\* C14: no lock is held across the fetch: two getOrSet (or _getCachedOrFresh)
\* calls for the same absent key, the second begun before the fetch of the
\* first has resolved, each invoke their fetch; when the later fetch resolves
\* the entry holds its value, and a get of the key returns exactly that value.
C14_LastResolvedWins ==
  /\ (lastOp.op = "settleOverlapped" /\ lastOp.ret \in CacheValues) =>
       /\ lastOp.key \in DOMAIN store
       /\ store[lastOp.key].value = lastOp.ret
       /\ TtlGet(store, lastOp.key, now).ret = lastOp.ret
  /\ (lastOp.op = "settleFreshOverlapped" /\ ~cacheDisabled) =>
       /\ cache[lastOp.key].data = lastOp.ret
       /\ CachedOrFresh(cache, lastOp.key, Undefined, SystemPortsTtl, now) = lastOp.ret

\* Two getOrSet calls for the same key awaited their fetches at the same
\* time, and both have now resolved with a value.
C14_Witness ==
  /\ lastOp.op = "settleOverlapped" /\ lastOp.ret \in CacheValues
  /\ inflight = << >>
  /\ store[lastOp.key].value = lastOp.ret

\* Two calls for the same key are awaiting fetches that resolve differently.
C14_WitnessBothInvoked ==
  /\ Len(inflight) = 2
  /\ inflight[1].kind = inflight[2].kind /\ inflight[1].key = inflight[2].key
  /\ inflight[1].overlap /\ inflight[2].overlap
  /\ inflight[1].out # inflight[2].out

\* C15: with DISABLE_CACHE set, every cached read (the collector's
\* _getCachedOrFresh reads and the engine client's list, inspect and stats
\* reads) invokes its underlying fetch, and no cache entry is read or written.
C15_DisabledCacheBypassed ==
  cacheDisabled =>
    /\ store = EmptyMap
    /\ ~cache.systemPorts.has
    /\ lastOp.op \in { "getOrSet", "cachedOrFresh" } => lastOp.invoked

\* C16: a value stored in the cache is not modified afterwards: the
\* reconciliation (promotion), self-attribution and filtering (enrichment)
\* steps of a collect() leave the cached system-port entries, which a later
\* collect() reads, as they were stored.
C16_Step ==
  pc \in { "reconcile", "self-attribution", "filter" } =>
    cache'.systemPorts = cache.systemPorts

C16_CachedValuesImmutable == [][C16_Step]_vars

\* The candidates whose compatibility check returned a strictly positive score.
Positive(scores) ==
  { i \in 1..Len(CollectorTypes) :
      ~scores[CollectorTypes[i]].threw /\ scores[CollectorTypes[i]].score > 0 }

\* C17: detectCollector returns the collector of the candidate with the
\* highest strictly positive score among truenas, docker, system, the
\* earlier candidate winning a tie; when no score is positive, or every
\* check throws, it returns the system collector.
C17_HighestPositiveScoreWins ==
  detection.made =>
    LET sc == detection.scores
        pos == Positive(sc)
    IN  IF pos = { } THEN detection.collector = "system"
        ELSE \E i \in pos :
               /\ detection.collector = CollectorTypes[i]
               /\ \A j \in pos :
                    sc[CollectorTypes[j]].score <= sc[CollectorTypes[i]].score
               /\ \A j \in pos :
                    j < i => sc[CollectorTypes[j]].score < sc[CollectorTypes[i]].score

\* Two candidates tie on the highest positive score and the earlier one is
\* returned.
C17_Witness ==
  /\ detection.made
  /\ Positive(detection.scores) = { 1, 2, 3 }
  /\ detection.scores.docker.score = detection.scores.truenas.score
  /\ detection.scores.system.score < detection.scores.truenas.score
  /\ detection.collector = "truenas"

\* Every compatibility check throws and the system collector is returned.
C17_WitnessAllThrow ==
  /\ detection.made
  /\ \A i \in 1..Len(CollectorTypes) : detection.scores[CollectorTypes[i]].threw
  /\ detection.collector = "system"

\* C18: isCompatible() returns an integer in 0..100 for every combination of
\* the detection signals: the additive score is capped at 100.
C18_ScoreWithinHundred ==
  (detection.made /\ ~detection.scores.truenas.threw) =>
    detection.scores.truenas.score \in 0..100

\* The dotted-quad text of an IPv4 address.
DottedQuad(ip) ==
  ToString(ip[1]) \o "." \o ToString(ip[2]) \o "." \o ToString(ip[3]) \o "."
  \o ToString(ip[4])

\* C19: the hex local-address parser inverts the kernel's formatter: an
\* IPv4 address printed as 8 little-endian hex digits parses back to itself,
\* and a 32-digit input parses to the IPv6 address it encodes, '::' only
\* when every digit is zero.
C19_ParseInvertsFormat ==
  hostIp # Null =>
    /\ localAddress.family = 4 => hostIp = DottedQuad(localAddress.bytes)
    /\ localAddress.family = 6 => (hostIp = "::" <=> localAddress.hex = HexAny6)

\* The start times ps reports for the processes that own the system ports.
ProcessStartTimes ==
  [ pid \in { ListenerPid(systemPorts[i]) : i \in 1..Len(systemPorts) } \ { NoPid } |->
      "lstart-" \o ToString(pid) ]

\* C20: for every system port the reconciler inserts, created is the start
\* time of the owning process when one is known; when the port was promoted
\* to a container and no start time is known for its pid, created is the
\* creation time of that container; created is absent in every other case.
C20_CreatedHasKnownSource ==
  pc = "self-attribution" =>
    \A n \in 1..Len(uniquePorts) :
      uniquePorts[n].kind = "system" =>
        LET p == systemPorts[uniquePorts[n].idx]
            pid == ListenerPid(p)
        IN  IF pid \in DOMAIN ProcessStartTimes
              THEN p.created = ProcessStartTimes[pid]
            ELSE IF p.source = "docker" /\ p.container_id # Null
              THEN p.created = ContainerCreationTime(dockerContainers, p.container_id)
            ELSE p.created = Null

\* C21: when two container ports have the same dedup key, the record kept
\* in the dedup map is the first one in input order; a later port with the
\* same key never replaces it.
C21_FirstContainerPortKept ==
  pc = "self-attribution" =>
    \A n \in 1..Len(uniquePorts) :
      uniquePorts[n].kind = "docker" =>
        \A i \in 1..Len(dockerPorts) :
          DockerPortKey(dockerPorts[i]) = uniquePorts[n].key => uniquePorts[n].idx <= i

\* The containers whose name contains the agent's expected container name.
SelfContainers ==
  { i \in 1..Len(engineContainers) : Includes(engineContainers[i].Names, "portracker") }

\* C22: self-attribution promotes a record whose host_port is the agent's
\* listen port, whose owner is node or system and whose source is system to
\* the container with the agent's expected name, when the engine lists one;
\* when none exists or the listing fails the record is left unchanged, and
\* a record that does not meet all three conditions is never changed.
C22_Step ==
  pc = "self-attribution" =>
    \A n \in 1..Len(uniquePorts) :
      LET before == Deref(uniquePorts[n], dockerPorts, cache.systemPorts.data)
          after == Deref(uniquePorts[n], dockerPorts', cache'.systemPorts.data)
          eligible == /\ before.host_port = OurPort
                      /\ before.owner \in { "node", "system" }
                      /\ before.source = "system"
      IN  IF eligible /\ dockerUp /\ SelfContainers # { }
            THEN \E i \in SelfContainers :
                   /\ \A j \in SelfContainers : i <= j
                   /\ after.source = "docker"
                   /\ after.container_id = engineContainers[i].Id
                   /\ after.app_id = engineContainers[i].Id
                   /\ after.owner = engineContainers[i].Names
                   /\ after.host_ip = before.host_ip
                   /\ after.host_port = before.host_port
                   /\ after.protocol = before.protocol
            ELSE after = before

C22_SelfAttribution == [][C22_Step]_vars

\* The agent's own listener has been attributed to the agent's container.
C22_Witness ==
  /\ pc = "filter"
  /\ \E n \in 1..Len(uniquePorts) :
       /\ uniquePorts[n].kind = "system"
       /\ LET p == cache.systemPorts.data[uniquePorts[n].idx]
          IN  /\ p.host_port = OurPort /\ p.source = "docker"
              /\ p.owner = "portracker" /\ p.container_id = "c5"

\* The agent's own listener is left alone when the engine lists no container
\* with the expected name.
C22_WitnessUnchanged ==
  /\ pc = "filter"
  /\ SelfContainers = { }
  /\ \E n \in 1..Len(uniquePorts) :
       /\ uniquePorts[n].kind = "system"
       /\ LET p == cache.systemPorts.data[uniquePorts[n].idx]
          IN  p.host_port = OurPort /\ p.source = "system" /\ p.owner = "node"

\* The applications that match the service registered for a port by a
\* substring of their name or image: _enhanceKnownPort has substrings for
\* the WireGuard services only, and looks for no container on the ports of
\* any other registered service.
ServiceMatches(port, allApps) ==
  IF ImportantPortService(port) \in { "WireGuard", "WireGuard-UI" }
    THEN PossibleContainers(allApps) ELSE << >>

\* A record on a registry port, system-sourced and without container_id.
Enrichable(p) ==
  /\ p.source = "system" /\ p.container_id = Null
  /\ p.host_port \in ImportantPortNumbers
  /\ p.protocol = ImportantPortProtocol(p.host_port)

\* What enrichment does to a record given the matching containers m: no
\* match leaves it alone, one match promotes it to that container, several
\* promote it to the first one named exactly wg-easy or wireguard, else to
\* the first.
EnrichedAs(before, after, m) ==
  LET exact == { i \in 1..Len(m) : m[i].name \in { "wg-easy", "wireguard" } }
      promotedTo(app) ==
        /\ after.source = "docker" /\ after.container_id = app.id
        /\ after.app_id = app.id /\ after.owner = app.name
        /\ after.host_ip = before.host_ip /\ after.host_port = before.host_port
        /\ after.protocol = before.protocol
  IN  IF Len(m) = 0 THEN after = before
      ELSE IF Len(m) = 1 THEN promotedTo(m[1])
      ELSE IF exact # { }
        THEN \E i \in exact : (\A j \in exact : i <= j) /\ promotedTo(m[i])
      ELSE promotedTo(m[1])

\* C23 as stated: known-port enrichment.  For every system-sourced record
\* without container_id on a port of the known-service registry (WireGuard,
\* OpenVPN, ...): if exactly one container matches by name or image
\* substring the record is promoted to it; if several match, one named
\* exactly wg-easy or wireguard is chosen before any other; if none matches
\* the record stays source=system.
C23_StepAnyService ==
  pc = "filter" =>
    \A n \in 1..Len(uniquePorts) :
      LET before == Deref(uniquePorts[n], dockerPorts, cache.systemPorts.data)
          after == Deref(uniquePorts[n], dockerPorts', cache'.systemPorts.data)
      IN  Enrichable(before) =>
            EnrichedAs(before, after, PossibleContainers(results.applications))

C23_Step ==
  pc = "filter" =>
    \A n \in 1..Len(uniquePorts) :
      LET before == Deref(uniquePorts[n], dockerPorts, cache.systemPorts.data)
          after == Deref(uniquePorts[n], dockerPorts', cache'.systemPorts.data)
      IN  Enrichable(before) =>
            EnrichedAs(before, after,
                       ServiceMatches(before.host_port, results.applications))

C23_WitnessSeveral ==
  /\ pc = "done"
  /\ Len(PossibleContainers(results.applications)) = 2
  /\ PossibleContainers(results.applications)[2].name = "wg-easy"
  /\ \E k \in 1..Len(results.ports) :
       results.ports[k].host_port = 51820 /\ results.ports[k].owner = "wg-easy"

\* A registry port stays source=system when no container matches.
C23_WitnessNone ==
  /\ pc = "done"
  /\ \E k \in 1..Len(results.ports) :
       /\ results.ports[k].host_port \in ImportantPortNumbers
       /\ results.ports[k].protocol = "udp"
       /\ results.ports[k].source = "system"

\* C24: the ports list emitted by collect() is sorted by (host_ip,
\* host_port, container_id, protocol); in particular two records with the
\* same host_ip appear in the order of their host_port.
C24_PortsSorted ==
  pc = "done" =>
    \A i, j \in 1..Len(results.ports) :
      (i < j /\ results.ports[i].host_ip = results.ports[j].host_ip) =>
        results.ports[i].host_port <= results.ports[j].host_port

\* C30: the dedup of non-internal ports ignores the protocol: the ports list
\* of one collect() holds at most one non-internal record per (host_ip,
\* host_port), and the record of an endpoint a container publishes carries
\* the protocol of the container port kept in the dedup map.
C30_OneRecordPerEndpoint ==
  pc = "done" =>
    /\ \A i, j \in 1..Len(results.ports) :
         (/\ i # j
          /\ ~results.ports[i].internal /\ ~results.ports[j].internal
          /\ results.ports[i].host_ip = results.ports[j].host_ip) =>
           results.ports[i].host_port # results.ports[j].host_port
    /\ \A n \in 1..Len(uniquePorts) :
         (uniquePorts[n].kind = "docker" /\ ~dockerPorts[uniquePorts[n].idx].internal) =>
           LET kept == dockerPorts[uniquePorts[n].idx]
           IN  \A k \in 1..Len(results.ports) :
                 (/\ ~results.ports[k].internal
                  /\ results.ports[k].host_ip = kept.host_ip
                  /\ results.ports[k].host_port = kept.host_port) =>
                   /\ results.ports[k].protocol = kept.protocol
                   /\ results.ports[k].container_id = kept.container_id

\* A container publishes 0.0.0.0:53 for tcp and for udp, the kernel shows a
\* listener on that endpoint too, and one record is emitted for it.
C30_Witness ==
  /\ pc = "done"
  /\ \E i \in 1..Len(engineContainers) : engineContainers[i].Id = "c6"
  /\ \E r \in 1..Len(kernelRows) : kernelRows[r].port = 53
  /\ Cardinality({ k \in 1..Len(results.ports) :
                     results.ports[k].host_port = 53 }) = 1
  /\ \E k \in 1..Len(results.ports) :
       results.ports[k].host_port = 53 /\ results.ports[k].container_id = "c6"

\* The methods, in order, that yield at least one port.
Yielding ==
  { i \in 1..Len(MethodOrder) :
      methods[MethodOrder[i]].state = "ok" /\ methods[MethodOrder[i]].count > 0 }

\* C29: _getSystemPorts tries /proc parsing, ss, netstat and nsenter ss in
\* that order; a later method runs only when every earlier one failed or
\* returned zero ports; the value returned is the output of the first method
\* that yields at least one port, and the empty list when none does (the
\* call never throws).
C29_FirstYieldingMethod ==
  /\ \A i \in 1..Len(scan.tried) :
       /\ scan.tried[i] = MethodOrder[i]
       /\ \A j \in 1..(i - 1) : j \notin Yielding
  /\ scan.returned =>
       IF Yielding = { } THEN scan.ports = << >> /\ Len(scan.tried) = Len(MethodOrder)
       ELSE LET f == CHOOSE i \in Yielding : \A j \in Yielding : i <= j
            IN  /\ scan.ports = MethodPorts(MethodOrder[f], methods[MethodOrder[f]])
                /\ Len(scan.tried) = f

\* /proc and ss yielded nothing, netstat yields a port and its list is
\* returned without nsenter being tried.
C29_Witness ==
  /\ scan.returned
  /\ scan.tried = << "proc", "ss", "netstat" >>
  /\ scan.ports = << "netstat" >>
  /\ methods.nsenter.count > 0

\* Every method fails and the empty list is returned.
C29_WitnessAllFail ==
  /\ scan.returned
  /\ \A i \in 1..Len(MethodOrder) : methods[MethodOrder[i]].state = "throws"
  /\ scan.ports = << >>

\* C25: in getTcpPorts and getUdpPorts the targeted fd rescan runs exactly
\* when the inode map resolved fewer than 50% of the retained listeners, and
\* the external socket-listing tool runs exactly when that rescan resolved
\* less than 25% of the inodes that were still unmapped.
C25_FallbackThresholds ==
  fallbacks.done =>
    LET unmapped == parseCounts.ports - parseCounts.resolved
    IN  /\ fallbacks.rescan <=> 2 * parseCounts.resolved < parseCounts.ports
        /\ fallbacks.tool <=> (fallbacks.rescan /\ 4 * parseCounts.additional < unmapped)

\* C26: in a collect() with credentials, the platform RPC phase has been
\* started by the time the local sources are collected: while a local stage
\* runs, the _collectEnhancedFeatures() of that collect() is under way.
C26_PlatformStartedFirst ==
  (apiKey /\ \E i \in 1..Len(LocalStages) : rpcPc = LocalStages[i]) =>
    rpcTasks[rpcCollect].state # "none"

\* C27: the client of a collect() is its own: a platform phase that timed
\* out leaves no RPC call to be made or awaited on the client object that a
\* later collect() makes its calls on.
C27_ClientNotShared ==
  \A c, d \in 1..MaxRpcCollects :
    (c < d /\ rpcOutcome[c] = "timeout" /\ rpcTasks[c].state = "awaiting"
       /\ rpcTasks[d].state # "none") =>
      rpcTasks[c].client # rpcTasks[d].client

\* A step that is a createCollector or detectCollector call returning, or a
\* getCollectorAsync call taking its instance, for the key k.
CallFor(k) ==
  \/ /\ factoryCall' # factoryCall
     /\ factoryCall'.op \in { "createCollector", "detectCollector" }
     /\ factoryCall'.key = k
  \/ /\ ~asyncCall.pending
     /\ asyncCall'.pending
     /\ asyncCall'.key = k

\* The instance such a step hands out.
HandedOut ==
  IF asyncCall'.pending /\ ~asyncCall.pending THEN asyncCall'.inst
  ELSE factoryCall'.returned

C28_Step ==
  /\ \A k \in PlatformKeys :
       /\ (collectorInstances[k] # 0 /\ factoryCall'.op # "resetCollectors") =>
            collectorInstances'[k] = collectorInstances[k]
       /\ (collectorInstances[k] # 0 /\ CallFor(k)) =>
            HandedOut = collectorInstances[k]
       /\ (collectorInstances[k] = 0 /\ CallFor(k)) =>
            /\ HandedOut = collectorInstances'[k]
            /\ HandedOut = Len(instances) + 1
  /\ \A i \in 1..Len(instances') : instances'[i].invoked <= 1
  /\ (asyncCall.pending /\ ~asyncCall'.pending) =>
       /\ factoryCall'.op = "getCollectorAsync"
       /\ factoryCall'.returned = asyncCall.inst

\* C28: between two resets the registry keeps the instance of a key, every
\* createCollector, detectCollector and getCollectorAsync call for that key
\* hands out that instance whatever config it passes (a new one only when
\* the key has none), initialize() of an instance is invoked at most once,
\* and a getCollectorAsync call ends by resolving to the instance it took,
\* also when initialize() rejected.
C28_OneInstancePerKey == [][C28_Step]_vars

\* A getCollectorAsync call resolved to the registered instance of its key,
\* whose initialize() was invoked once and rejected.
C28_Witness ==
  /\ factoryCall.op = "getCollectorAsync"
  /\ factoryCall.returned # 0
  /\ collectorInstances[factoryCall.key] = factoryCall.returned
  /\ instances[factoryCall.returned].initialize = "rejected"
  /\ instances[factoryCall.returned].invoked = 1

\* A createCollector call that passed another config than the one the
\* registered instance was made with, and got that instance.
C28_WitnessOtherConfig ==
  /\ factoryCall.op = "createCollector"
  /\ factoryCall.returned # 0
  /\ collectorInstances[factoryCall.key] = factoryCall.returned
  /\ instances[factoryCall.returned].config # factoryCall.config

\* After a reset, a key has a new instance.
C28_WitnessAfterReset ==
  /\ Len(instances) = 2
  /\ factoryCall.op = "createCollector"
  /\ factoryCall.key = "base"
  /\ factoryCall.returned = 2
  /\ collectorInitState = [ k \in PlatformKeys |-> 0 ]
  /\ instances[1].initialize = "pending"

====
